---- MODULE Spec2Model ----
(***************************************************************************)
(* Model of the egress handler process, its process manager and the       *)
(* pipeline bus loop (pkg/service/handler.go, handler_deprecated.go,      *)
(* manager.go, pkg/pipeline/watch.go, pkg/config).                         *)
(*                                                                         *)
(* One job is followed from launchHandler to awaitCleanup.  The pipeline  *)
(* controller's Run/SendEOS/removeSink/stop live in a file that is not    *)
(* part of the sources at hand; they are modelled from the design text    *)
(* and marked as such in the model map.                                   *)
(***************************************************************************)
EXTENDS Integers, Sequences, FiniteSets, TLC

\* ------------------------------------------------------------------ bounds
MaxTime == 2          \* wall clock runs over 1..MaxTime
MaxSegments == 1      \* distinct segment ids carried by fragment messages
MaxUploads == 3       \* segments produced by the HLS job whose uploads are followed
MaxProcs == 2         \* handler processes the manager starts

\* ------------------------------------------------------- program constants
FailureCap == 10      \* make(chan error, 10)

Elems == {"e1", "e2", "e3"}
NoUrl == ""
Tracks == {"audio", "video"}      \* source.AudioAppSource, source.VideoAppSource

STARTING == "EGRESS_STARTING"
ACTIVE == "EGRESS_ACTIVE"
ENDING == "EGRESS_ENDING"
COMPLETE == "EGRESS_COMPLETE"
FAILED == "EGRESS_FAILED"

\* position of a status in STARTING -> ACTIVE -> ENDING -> COMPLETE | FAILED
StatusRank(s) ==
    CASE s = STARTING -> 0
      [] s = ACTIVE -> 1
      [] s = ENDING -> 2
      [] s = COMPLETE -> 3
      [] s = FAILED -> 3

IsTerminal(s) == s \in {COMPLETE, FAILED}

NoErr == ""
ErrInternal == "internal error"
ErrUser == "user error"
ErrFatal == "fatal error"
ErrGstPipelineError == "gst pipeline error"
ErrStreamNotFound == "stream not found"
ErrSink == "sink error"
ErrDecode == "invalid segment parameters"
ErrEgressNotFound == "egress not found"
ErrNonStreamingPipeline == "UpdateStream called on non-streaming egress"
ErrStreamAlreadyExists == "stream already exists"
DeadlineExceeded == "timed out requesting pipeline debug info"

VARIABLES
    \* ProcessManager
    activeHandlers,   \* keys of s.activeHandlers
    minfo,            \* process.info held by the manager
    pclosed,          \* process.closed fuse
    cleaned,          \* awaitCleanup has returned
    \* handler process
    version,          \* --version argument: 0 (HandlerV0) or 1 (Handler)
    hpc,              \* position of the handler process
    retCode,          \* what main returns once the handler is done
    exitCode,         \* exit code seen by cmd.Wait (-1 while running)
    kill,             \* Handler.kill fuse
    rpcServer,        \* bus RPC server: "none", "serving", "shutdown"
    grpcServer,       \* socket RPC server: "none", "serving", "stopped"
    result,           \* the result channel of Handler.Run (capacity 1)
    \* pipeline
    pstate,           \* Building, Starting, Playing, Ending, Terminated
    running,          \* Pipeline.Run has been entered
    Info,             \* p.Info / conf.Info
    SourceType,       \* "sdk" or "web"
    playing,          \* p.playing
    closed,           \* p.closed fuse
    eosTimer,         \* p.eosTimer
    watching,         \* the bus watch has not returned false
    Failure,          \* p.Failure channel
    urls,             \* stream output: ordered URL list
    bindings,         \* stream sink: element name -> URL
    rtmpElems,        \* stream sink: RTMP sink elements created so far
    others,           \* the other outputs (sinks) of the job
    srcPlaying,       \* tracks for which SDKSource.Playing was called
    srcStopped,       \* tracks for which SDKSource.StreamStopped was called
    segOpen,          \* segment sink: segments opened
    segQueue,         \* segment sink: segments enqueued for upload
    startDateSet,     \* segment sink: UpdateStartDate was called
    \* history
    updates,          \* every status update sent, in order
    eosAgain,         \* SendEOS was called again after its first call
    timerArms,        \* times SendEOS armed the EOS safety timer
    now,              \* wall clock
    \* handler RPCs
    resp,             \* the last response of UpdateStream
    dot,              \* the GetPipelineDot request in progress
    \* segment sink
    upl,              \* upload worker, playlist and storage
    \* configuration
    conf,             \* the request parameters and what PipelineConfig derives from them
    failureMade,      \* p.Failure was made by the constructor (it is nil otherwise)
    \* process manager with several handler processes
    pm                \* the processes started, activeHandlers and the monitor's counts

mgrVars == <<activeHandlers, minfo, pclosed, cleaned>>
procVars == <<version, hpc, retCode, exitCode, kill>>
srvVars == <<rpcServer, grpcServer, result>>
pipeVars == <<pstate, running, Info, SourceType, playing, closed, eosTimer, watching, Failure>>
sinkVars == <<urls, bindings, rtmpElems, others, srcPlaying, srcStopped, segOpen, segQueue, startDateSet>>
histVars == <<updates, eosAgain, timerArms, now>>
auxVars == <<resp, dot, upl, conf, failureMade, pm>>
vars == <<mgrVars, procVars, srvVars, pipeVars, sinkVars, histVars, auxVars>>

\* the EOS safety timer: set (p.eosTimer != nil), active (armed, neither
\* stopped nor fired), elapsed (eosTimeout has passed since it was last armed)
NoTimer == [set |-> FALSE, active |-> FALSE, elapsed |-> FALSE]
NewTimer == [set |-> TRUE, active |-> TRUE, elapsed |-> FALSE]

NoInfo == [status |-> STARTING, updatedAt |-> 0, endedAt |-> 0, error |-> NoErr]

\* what sendUpdate hands to the I/O info client
Update(info, by) ==
    [status |-> info.status, updatedAt |-> info.updatedAt,
     endedAt |-> info.endedAt, error |-> info.error, by |-> by]

Alive == hpc \in {"spawned", "configured", "constructing", "ready", "running", "returned"}

\* no RPC served, nothing uploaded, no configuration under validation
NoResp == [op |-> "none", hasInfo |-> FALSE, info |-> NoInfo, err |-> NoErr]
NoDot == [phase |-> "idle", helper |-> "none", res |-> <<>>, elapsed |-> FALSE, reply |-> "none"]
NoUpl ==
    [taken |-> 0, stage |-> "idle", playlist |-> <<>>, inflight |-> {}, stored |-> <<>>,
     ended |-> FALSE]
NoConf == [kind |-> "none"]

\* the handler processes of the manager and the egress ids of their requests
Handles == 1..MaxProcs
EgressIds == {"EG_1", "EG_2"}

\* no process started: cmds is the exec.Cmd of each process with the egress
\* id of its request, activeHandlers maps an egress id to a process (0: no
\* entry), started and ended count monitor.EgressStarted and EgressEnded,
\* fatal holds the processes reported to onFatalError, ret is what the last
\* launchHandler returned
NoCmd == [st |-> "none", id |-> "", exit |-> 0, awaited |-> FALSE]
NoManager ==
    [cmds |-> [h \in Handles |-> NoCmd],
     activeHandlers |-> [id \in EgressIds |-> 0],
     started |-> [id \in EgressIds |-> 0],
     ended |-> [id \in EgressIds |-> 0],
     fatal |-> {},
     ret |-> "none"]

AuxInit ==
    /\ resp = NoResp
    /\ dot = NoDot
    /\ upl = NoUpl
    /\ conf = NoConf
    /\ failureMade = TRUE
    /\ pm = NoManager

\* no handler process has been launched
NoProcess ==
    /\ activeHandlers = {}
    /\ minfo = NoInfo
    /\ pclosed = FALSE
    /\ cleaned = FALSE
    /\ version = 1
    /\ hpc = "none"
    /\ retCode = 0
    /\ exitCode = -1
    /\ kill = FALSE
    /\ rpcServer = "none"
    /\ grpcServer = "none"
    /\ result = <<>>
    /\ pstate = "Building"
    /\ running = FALSE
    /\ Info = NoInfo
    /\ SourceType = "web"
    /\ playing = FALSE
    /\ closed = FALSE
    /\ eosTimer = NoTimer
    /\ watching = FALSE
    /\ Failure = <<>>
    /\ urls = <<>>
    /\ bindings = [e \in Elems |-> NoUrl]
    /\ rtmpElems = {}
    /\ others = {}
    /\ srcPlaying = {}
    /\ srcStopped = {}
    /\ segOpen = {}
    /\ segQueue = <<>>
    /\ startDateSet = FALSE
    /\ updates = <<>>
    /\ eosAgain = FALSE
    /\ timerArms = 0
    /\ now = 1

Init ==
    /\ AuxInit
    /\ NoProcess

\* the wall clock advances
Tick ==
    /\ now < MaxTime
    /\ now' = now + 1
    /\ UNCHANGED <<auxVars, mgrVars, procVars, srvVars, pipeVars, sinkVars, updates, eosAgain, timerArms>>


\* ------------------------------------------------------ pipeline controller

\* p.stop(): the pipeline is set to the NULL state and the bus loop quits
stop ==
    /\ pstate' = "Terminated"
    /\ watching' = FALSE

\* SendEOS without the closed-fuse check: every call arms the timer again
SendEOSRearm ==
    /\ eosAgain' = (eosAgain \/ closed)
    /\ closed' = TRUE
    /\ eosTimer' = NewTimer
    /\ timerArms' = IF timerArms < 2 THEN timerArms + 1 ELSE timerArms
    /\ IF pstate \in {"Starting", "Playing"}
       THEN /\ pstate' = "Ending"
            /\ Info' = [Info EXCEPT !.status = ENDING, !.updatedAt = now]
            /\ updates' = Append(updates, Update(Info', "Pipeline.SendEOS"))
       ELSE UNCHANGED <<pstate, Info, updates>>

\* Pipeline.SendEOS: the first call sets the closed flag, arms the EOS safety
\* timer and enters Ending; later calls are no-ops
SendEOS ==
    /\ eosAgain' = (eosAgain \/ closed)
    /\ IF closed
       THEN UNCHANGED <<closed, eosTimer, timerArms, pstate, Info, updates>>
       ELSE /\ closed' = TRUE
            /\ eosTimer' = NewTimer
            /\ timerArms' = timerArms + 1
            /\ IF pstate \in {"Starting", "Playing"}
               THEN /\ pstate' = "Ending"
                    /\ Info' = [Info EXCEPT !.status = ENDING, !.updatedAt = now]
                    /\ updates' = Append(updates, Update(Info', "Pipeline.SendEOS"))
               ELSE UNCHANGED <<pstate, Info, updates>>

\* the variables SendEOS leaves alone
sendEOSFrame == <<running, SourceType, playing, watching, Failure, sinkVars>>

\* ---------------------------------------------------------- process manager

\* the jobs followed: handler version, source, stream URLs, other outputs
Jobs ==
    { [version |-> 1, source |-> "web", urls |-> <<"u1">>, others |-> {}],
      [version |-> 1, source |-> "web", urls |-> <<"u1", "u2">>, others |-> {}],
      [version |-> 1, source |-> "web", urls |-> <<"u1", "u2">>, others |-> {"file"}],
      [version |-> 1, source |-> "sdk", urls |-> <<"u1">>, others |-> {"file"}],
      [version |-> 1, source |-> "web", urls |-> <<>>, others |-> {"segments"}],
      [version |-> 0, source |-> "web", urls |-> <<"u1">>, others |-> {}],
      [version |-> 0, source |-> "sdk", urls |-> <<>>, others |-> {"file"}] }

\* ProcessManager.launchHandler: the handler process is started for a
\* validated request and awaitCleanup is launched for it
launchHandler(v, st, us, os) ==
    /\ hpc = "none"
    /\ Len(us) + Cardinality(os) > 0
    /\ version' = v
    /\ SourceType' = st
    /\ urls' = us
    /\ others' = os
    /\ hpc' = "spawned"
    /\ activeHandlers' = activeHandlers \cup {"EG_1"}
    /\ minfo' = [status |-> STARTING, updatedAt |-> now, endedAt |-> 0, error |-> NoErr]
    /\ UNCHANGED <<auxVars, pclosed, cleaned, retCode, exitCode, kill, srvVars,
                   pstate, running, Info, playing, closed, eosTimer, watching, Failure,
                   bindings, rtmpElems, srcPlaying, srcStopped, segOpen, segQueue, startDateSet,
                   histVars>>

\* awaitCleanup that marks the job FAILED without refreshing its timestamps
awaitCleanupStaleTime ==
    /\ hpc = "exited"
    /\ ~cleaned
    /\ IF exitCode # 0
       THEN /\ minfo' = [minfo EXCEPT !.status = FAILED, !.error = ErrInternal]
            /\ updates' = Append(updates, Update(minfo', "awaitCleanup"))
       ELSE UNCHANGED <<minfo, updates>>
    /\ pclosed' = TRUE
    /\ activeHandlers' = activeHandlers \ {"EG_1"}
    /\ cleaned' = TRUE
    /\ UNCHANGED <<auxVars, procVars, srvVars, pipeVars, sinkVars, eosAgain, timerArms, now>>

\* ProcessManager.awaitCleanup: cmd.Wait has returned
awaitCleanup ==
    /\ hpc = "exited"
    /\ ~cleaned
    /\ IF exitCode # 0
       THEN /\ minfo' = [minfo EXCEPT !.updatedAt = now, !.endedAt = now,
                                      !.status = FAILED, !.error = ErrInternal]
            /\ updates' = Append(updates, Update(minfo', "awaitCleanup"))
       ELSE UNCHANGED <<minfo, updates>>
    /\ pclosed' = TRUE
    /\ activeHandlers' = activeHandlers \ {"EG_1"}
    /\ cleaned' = TRUE
    /\ UNCHANGED <<auxVars, procVars, srvVars, pipeVars, sinkVars, eosAgain, timerArms, now>>

\* ------------------------------------------------------------ handler process

\* what main returns for the error of NewHandler / Run: fatal errors make the
\* process exit non-zero, user errors and nil exit zero
MainReturn(err) == IF err = ErrFatal THEN 1 ELSE 0

\* NewPipelineConfig -> PipelineConfig.Update: conf.Info starts as STARTING
NewPipelineConfig ==
    /\ hpc = "spawned"
    /\ hpc' = "configured"
    /\ Info' = [status |-> STARTING, updatedAt |-> now, endedAt |-> 0, error |-> NoErr]
    /\ UNCHANGED <<auxVars, mgrVars, version, retCode, exitCode, kill, srvVars,
                   pstate, running, SourceType, playing, closed, eosTimer, watching, Failure,
                   sinkVars, histVars>>

\* the URL -> element binding table built with the stream sink
InitialBindings ==
    [e \in Elems |->
        IF e = "e1" /\ Len(urls) >= 1 THEN urls[1]
        ELSE IF e = "e2" /\ Len(urls) >= 2 THEN urls[2]
        ELSE NoUrl]

\* NewHandler, lines 47-71: the bus RPC server is registered and the socket
\* RPC server serves, before the pipeline is constructed
NewHandlerServe ==
    /\ version = 1
    /\ hpc = "configured"
    /\ hpc' = "constructing"
    /\ rpcServer' = "serving"
    /\ grpcServer' = "serving"
    /\ UNCHANGED <<auxVars, mgrVars, version, retCode, exitCode, kill, result,
                   pipeVars, sinkVars, histVars>>

\* NewHandler, lines 73-87: the pipeline is constructed while the RPC servers
\* serve; outcome is what pipeline.New returns
NewHandler(outcome) ==
    /\ version = 1
    /\ hpc = "constructing"
    /\ rpcServer' = "serving"
    /\ grpcServer' = "serving"
    /\ IF outcome = NoErr
       THEN /\ pstate' = "Starting"
            /\ bindings' = InitialBindings
            /\ rtmpElems' = {e \in Elems : InitialBindings[e] # NoUrl}
            /\ hpc' = "ready"
            /\ UNCHANGED <<Info, updates, retCode>>
       ELSE /\ hpc' = "returned"
            /\ retCode' = MainReturn(outcome)
            /\ UNCHANGED <<pstate, bindings, rtmpElems>>
            /\ IF outcome # ErrFatal
               THEN /\ Info' = [Info EXCEPT !.updatedAt = now, !.endedAt = now,
                                            !.status = FAILED, !.error = outcome]
                    /\ updates' = Append(updates, Update(Info', "NewHandler"))
               ELSE UNCHANGED <<Info, updates>>
    /\ UNCHANGED <<auxVars, mgrVars, version, exitCode, kill, result,
                   running, SourceType, playing, closed, eosTimer, watching, Failure,
                   urls, others, srcPlaying, srcStopped, segOpen, segQueue, startDateSet,
                   eosAgain, timerArms, now>>

\* Handler.Run, lines 95-98: the pipeline's Run is started on its own task
HandlerRunStart ==
    /\ version = 1
    /\ hpc = "ready"
    /\ hpc' = "running"
    /\ running' = TRUE
    /\ watching' = (pstate # "Terminated")
    /\ UNCHANGED <<auxVars, mgrVars, version, retCode, exitCode, kill, srvVars,
                   pstate, Info, SourceType, playing, closed, eosTimer, Failure,
                   sinkVars, histVars>>

\* Handler.Run that returns on the kill notification instead of waiting
\* for the result
HandlerRunKillReturns ==
    /\ version = 1
    /\ hpc = "running"
    /\ kill
    /\ SendEOS
    /\ hpc' = "returned"
    /\ UNCHANGED <<auxVars, mgrVars, version, retCode, exitCode, kill, srvVars, sendEOSFrame, now>>

\* Handler.Run, case <-kill
HandlerRunKill ==
    /\ version = 1
    /\ hpc = "running"
    /\ kill
    /\ SendEOS
    /\ UNCHANGED <<auxVars, mgrVars, procVars, srvVars, sendEOSFrame, now>>

\* a select that takes the result only while the kill notification is not ready
HandlerRunResultUnlessKill ==
    /\ version = 1
    /\ hpc = "running"
    /\ ~kill
    /\ result # <<>>
    /\ updates' = Append(updates, Update(Head(result), "Handler.Run"))
    /\ result' = Tail(result)
    /\ rpcServer' = "shutdown"
    /\ grpcServer' = "stopped"
    /\ hpc' = "returned"
    /\ retCode' = MainReturn(NoErr)
    /\ UNCHANGED <<auxVars, mgrVars, version, exitCode, kill, pipeVars, sinkVars,
                   eosAgain, timerArms, now>>

\* Handler.Run, case res := <-result
HandlerRunResult ==
    /\ version = 1
    /\ hpc = "running"
    /\ result # <<>>
    /\ updates' = Append(updates, Update(Head(result), "Handler.Run"))
    /\ result' = Tail(result)
    /\ rpcServer' = "shutdown"
    /\ grpcServer' = "stopped"
    /\ hpc' = "returned"
    /\ retCode' = MainReturn(NoErr)
    /\ UNCHANGED <<auxVars, mgrVars, version, exitCode, kill, pipeVars, sinkVars,
                   eosAgain, timerArms, now>>

\* Handler.StopEgress, served by the bus RPC server
StopEgress ==
    /\ Alive
    /\ rpcServer = "serving"
    /\ IF pstate = "Building"
       THEN UNCHANGED <<closed, eosTimer, timerArms, pstate, Info, updates, eosAgain>>
       ELSE SendEOS
    /\ UNCHANGED <<auxVars, mgrVars, procVars, srvVars, sendEOSFrame, now>>

\* Handler.Kill / HandlerV0.Kill: SIGINT breaks the kill fuse
Kill ==
    /\ hpc \in {"ready", "running"}
    /\ ~kill
    /\ kill' = TRUE
    /\ UNCHANGED <<auxVars, mgrVars, version, hpc, retCode, exitCode, srvVars, pipeVars, sinkVars, histVars>>

\* the process is gone: its memory (handler, pipeline, sinks, timers) with it
ProcessGone ==
    /\ hpc' = "exited"
    /\ retCode' = 0
    /\ kill' = FALSE
    /\ rpcServer' = "none"
    /\ grpcServer' = "none"
    /\ result' = <<>>
    /\ pstate' = "Building"
    /\ running' = FALSE
    /\ Info' = NoInfo
    /\ playing' = FALSE
    /\ closed' = FALSE
    /\ eosTimer' = NoTimer
    /\ watching' = FALSE
    /\ Failure' = <<>>
    /\ urls' = <<>>
    /\ bindings' = [e \in Elems |-> NoUrl]
    /\ rtmpElems' = {}
    /\ others' = {}
    /\ srcPlaying' = {}
    /\ srcStopped' = {}
    /\ segOpen' = {}
    /\ segQueue' = <<>>
    /\ startDateSet' = FALSE
    /\ eosAgain' = FALSE
    /\ timerArms' = 0
    /\ UNCHANGED <<auxVars, mgrVars, version, SourceType, updates, now>>

\* main returns and the process exits with the code it returned
MainExit ==
    /\ hpc = "returned"
    /\ exitCode' = retCode
    /\ ProcessGone

\* the process dies (media framework crash, signal): cmd.Wait returns an error
ProcessCrash ==
    /\ Alive
    /\ exitCode' = 1
    /\ ProcessGone

\* ------------------------------------------------------------- v0 handler

\* NewHandlerV0: only the socket RPC server is started
NewHandlerV0 ==
    /\ version = 0
    /\ hpc = "configured"
    /\ grpcServer' = "serving"
    /\ hpc' = "ready"
    /\ UNCHANGED <<auxVars, mgrVars, version, retCode, exitCode, kill, rpcServer, result,
                   pipeVars, sinkVars, histVars>>

\* HandlerV0.buildPipeline with the outcome of pipeline.New: the new values of
\* conf.Info and of the updates sent
buildPipeline(outcome) ==
    IF outcome = NoErr
    THEN [info |-> Info, updates |-> updates]
    ELSE LET i == [Info EXCEPT !.error = outcome, !.status = FAILED]
         IN [info |-> i, updates |-> Append(updates, Update(i, "buildPipeline"))]

\* HandlerV0.Run up to the select loop: buildPipeline, EgressSubscription
\* (subscribed = FALSE when it fails) and the start of the pipeline's Run
HandlerV0RunStart(outcome, subscribed) ==
    /\ version = 0
    /\ hpc = "ready"
    /\ Info' = buildPipeline(outcome).info
    /\ updates' = buildPipeline(outcome).updates
    /\ IF outcome # NoErr
       THEN /\ hpc' = "returned"
            /\ retCode' = MainReturn(outcome)
            /\ UNCHANGED <<pstate, bindings, rtmpElems, running, watching>>
       ELSE /\ pstate' = "Starting"
            /\ bindings' = InitialBindings
            /\ rtmpElems' = {e \in Elems : InitialBindings[e] # NoUrl}
            /\ IF subscribed
               THEN /\ hpc' = "running"
                    /\ running' = TRUE
                    /\ watching' = TRUE
                    /\ UNCHANGED retCode
               ELSE /\ hpc' = "returned"
                    /\ retCode' = MainReturn(NoErr)
                    /\ UNCHANGED <<running, watching>>
    /\ UNCHANGED <<auxVars, mgrVars, version, exitCode, kill, srvVars,
                   SourceType, playing, closed, eosTimer, Failure,
                   urls, others, srcPlaying, srcStopped, segOpen, segQueue, startDateSet,
                   eosAgain, timerArms, now>>

\* HandlerV0.Run, case <-kill
HandlerV0RunKill ==
    /\ version = 0
    /\ hpc = "running"
    /\ kill
    /\ SendEOS
    /\ UNCHANGED <<auxVars, mgrVars, procVars, srvVars, sendEOSFrame, now>>

\* HandlerV0.Run, case res := <-result
HandlerV0RunResult ==
    /\ version = 0
    /\ hpc = "running"
    /\ result # <<>>
    /\ updates' = Append(updates, Update(Head(result), "HandlerV0.Run"))
    /\ result' = Tail(result)
    /\ hpc' = "returned"
    /\ retCode' = MainReturn(NoErr)
    /\ UNCHANGED <<auxVars, mgrVars, version, exitCode, kill, rpcServer, grpcServer, pipeVars, sinkVars,
                   eosAgain, timerArms, now>>


\* ------------------------------------------------------------ bus messages

msgClockProblem == "GStreamer error: clock problem."
msgStreamingNotNegotiated == "streaming stopped, reason not-negotiated (-4)"
msgMuxer == ":muxer"
msgOther == "other"
msgFragmentOpened == "splitmuxsink-fragment-opened"
msgFragmentClosed == "splitmuxsink-fragment-closed"
msgFirstSampleMetadata == "FirstSampleMetadata"
elementGstRtmp2Sink == "GstRtmp2Sink"
elementGstAppSrc == "GstAppSrc"
elementSplitMuxSink == "GstSplitMuxSink"
elementOther == "GstFileSink"
pipelineSource == "pipeline"

Segments == 1..MaxSegments

\* the app sources of the job: SDK jobs are followed for an audio track
AppSources == IF SourceType = "sdk" THEN {"audio"} ELSE {}

WarningMsgs == [type : {"Warning"}, text : {msgClockProblem, msgOther}]

\* Error messages as parseDebugInfo splits them: element type, element name, message
ErrorMsgs ==
    [type : {"Error"}, element : {elementGstRtmp2Sink}, name : rtmpElems, message : {msgOther}]
    \cup [type : {"Error"}, element : {elementGstAppSrc}, name : AppSources,
          message : {msgStreamingNotNegotiated, msgOther}]
    \cup (IF "segments" \in others
          THEN [type : {"Error"}, element : {elementSplitMuxSink}, name : {"mux"},
                message : {msgMuxer, msgOther}]
          ELSE {})
    \cup [type : {"Error"}, element : {elementOther}, name : {"sink"}, message : {msgOther}]

StateChangedMsgs ==
    [type : {"StateChanged"}, newState : {"PAUSED", "PLAYING"},
     source : {pipelineSource} \cup AppSources]

\* the split-muxer opens its segments in order and closes the ones it opened;
\* a fragment message may be repeated for a segment already announced
ElementMsgs ==
    IF "segments" \in others
    THEN [type : {"Element"}, name : {msgFragmentOpened},
          seg : {g \in Segments : g <= Cardinality(segOpen) + 1},
          decodeOk : BOOLEAN, sinkOk : BOOLEAN]
         \cup [type : {"Element"}, name : {msgFragmentClosed},
               seg : {g \in segOpen : g <= Len(segQueue) + 1},
               decodeOk : BOOLEAN, sinkOk : BOOLEAN]
         \cup [type : {"Element"}, name : {msgFirstSampleMetadata},
               seg : {1}, decodeOk : BOOLEAN, sinkOk : {TRUE}]
    ELSE {}

\* the bus loop is installed and has not quit
BusReady ==
    /\ Alive
    /\ running
    /\ watching
    /\ pstate \in {"Starting", "Playing", "Ending"}

\* ------------------------------------------------------------- stream sink

\* output.GetStreamUrl: the URL bound to an element name, NoUrl when none is
GetStreamUrl(name) == bindings[name]

RemoveFromList(us, u) == SelectSeq(us, LAMBDA x : x # u)

\* Pipeline.removeSink for a failed stream: the URL and its binding are
\* dropped and an update is sent; the stream error comes back when no output
\* of any kind is left
removeSink(url) ==
    LET us == RemoveFromList(urls, url)
    IN [err |-> IF us = <<>> /\ others = {} THEN ErrGstPipelineError ELSE NoErr,
        urls |-> us,
        bindings |-> [e \in Elems |-> IF bindings[e] = url THEN NoUrl ELSE bindings[e]],
        updates |-> Append(updates, Update(Info, "Pipeline.removeSink")),
        srcStopped |-> srcStopped]

\* ------------------------------------------------------------ message handlers

\* handleMessageEOS that stops the timer but leaves the pipeline running
handleMessageEOSNoStop ==
    /\ eosTimer' = IF eosTimer.set THEN [eosTimer EXCEPT !.active = FALSE] ELSE eosTimer
    /\ watching' = FALSE
    /\ UNCHANGED pstate

\* handleMessageEOS that leaves the EOS safety timer armed
handleMessageEOSKeepsTimer ==
    /\ UNCHANGED eosTimer
    /\ stop

\* Pipeline.handleMessageEOS
handleMessageEOS ==
    /\ eosTimer' = IF eosTimer.set THEN [eosTimer EXCEPT !.active = FALSE] ELSE eosTimer
    /\ stop

\* handleMessageWarning that only logs
handleMessageWarningLogOnly(gErr) == NoErr

\* Pipeline.handleMessageWarning: the error it returns
handleMessageWarning(gErr) ==
    IF gErr.text = msgClockProblem THEN ErrGstPipelineError ELSE NoErr

\* what a handler that touches nothing returns with error err
Untouched(err) ==
    [err |-> err, urls |-> urls, bindings |-> bindings, updates |-> updates,
     srcStopped |-> srcStopped]

\* handleMessageError that drops the error removeSink returns
handleMessageErrorNeverFatal(gErr) ==
    IF gErr.element = elementGstRtmp2Sink
    THEN IF GetStreamUrl(gErr.name) = NoUrl
         THEN Untouched(ErrStreamNotFound)
         ELSE [removeSink(GetStreamUrl(gErr.name)) EXCEPT !.err = NoErr]
    ELSE IF gErr.element = elementGstAppSrc /\ gErr.message = msgStreamingNotNegotiated
    THEN [Untouched(NoErr) EXCEPT !.srcStopped = srcStopped \cup {gErr.name}]
    ELSE IF gErr.element = elementSplitMuxSink /\ gErr.message = msgMuxer /\ closed
    THEN Untouched(NoErr)
    ELSE Untouched(ErrGstPipelineError)

\* handleMessageError that treats the loss of the last stream URL as fatal
\* whatever other outputs remain
handleMessageErrorLastUrlFatal(gErr) ==
    IF gErr.element = elementGstRtmp2Sink
    THEN IF GetStreamUrl(gErr.name) = NoUrl
         THEN Untouched(ErrStreamNotFound)
         ELSE LET r == removeSink(GetStreamUrl(gErr.name))
              IN  IF r.urls = <<>> THEN [r EXCEPT !.err = ErrGstPipelineError] ELSE r
    ELSE IF gErr.element = elementGstAppSrc /\ gErr.message = msgStreamingNotNegotiated
    THEN [Untouched(NoErr) EXCEPT !.srcStopped = srcStopped \cup {gErr.name}]
    ELSE IF gErr.element = elementSplitMuxSink /\ gErr.message = msgMuxer /\ closed
    THEN Untouched(NoErr)
    ELSE Untouched(ErrGstPipelineError)

\* handleMessageError that removes the first live URL instead of the one
\* bound to the failed element
handleMessageErrorFirstUrl(gErr) ==
    IF gErr.element = elementGstRtmp2Sink
    THEN IF GetStreamUrl(gErr.name) = NoUrl
         THEN Untouched(ErrStreamNotFound)
         ELSE removeSink(Head(urls))
    ELSE IF gErr.element = elementGstAppSrc /\ gErr.message = msgStreamingNotNegotiated
    THEN [Untouched(NoErr) EXCEPT !.srcStopped = srcStopped \cup {gErr.name}]
    ELSE IF gErr.element = elementSplitMuxSink /\ gErr.message = msgMuxer /\ closed
    THEN Untouched(NoErr)
    ELSE Untouched(ErrGstPipelineError)

\* handleMessageError that suppresses a muxer error whether or not EOS was issued
handleMessageErrorMuxerAlways(gErr) ==
    IF gErr.element = elementGstRtmp2Sink
    THEN IF GetStreamUrl(gErr.name) = NoUrl
         THEN Untouched(ErrStreamNotFound)
         ELSE removeSink(GetStreamUrl(gErr.name))
    ELSE IF gErr.element = elementGstAppSrc /\ gErr.message = msgStreamingNotNegotiated
    THEN [Untouched(NoErr) EXCEPT !.srcStopped = srcStopped \cup {gErr.name}]
    ELSE IF gErr.element = elementSplitMuxSink /\ gErr.message = msgMuxer
    THEN Untouched(NoErr)
    ELSE Untouched(ErrGstPipelineError)

\* handleMessageError that does not tell the source of a not-negotiated stream
handleMessageErrorNoStreamStopped(gErr) ==
    IF gErr.element = elementGstRtmp2Sink
    THEN IF GetStreamUrl(gErr.name) = NoUrl
         THEN Untouched(ErrStreamNotFound)
         ELSE removeSink(GetStreamUrl(gErr.name))
    ELSE IF gErr.element = elementGstAppSrc /\ gErr.message = msgStreamingNotNegotiated
    THEN Untouched(NoErr)
    ELSE IF gErr.element = elementSplitMuxSink /\ gErr.message = msgMuxer /\ closed
    THEN Untouched(NoErr)
    ELSE Untouched(ErrGstPipelineError)

\* Pipeline.handleMessageError: the error it returns and the state it leaves
handleMessageError(gErr) ==
    IF gErr.element = elementGstRtmp2Sink
    THEN IF GetStreamUrl(gErr.name) = NoUrl
         THEN Untouched(ErrStreamNotFound)
         ELSE removeSink(GetStreamUrl(gErr.name))
    ELSE IF gErr.element = elementGstAppSrc /\ gErr.message = msgStreamingNotNegotiated
    THEN [Untouched(NoErr) EXCEPT !.srcStopped = srcStopped \cup {gErr.name}]
    ELSE IF gErr.element = elementSplitMuxSink /\ gErr.message = msgMuxer /\ closed
    THEN Untouched(NoErr)
    ELSE Untouched(ErrGstPipelineError)

\* Pipeline.updateStartTime: the job becomes ACTIVE with the given start time
updateStartTime(t) ==
    IF pstate = "Starting"
    THEN /\ pstate' = "Playing"
         /\ Info' = [Info EXCEPT !.status = ACTIVE, !.updatedAt = t]
         /\ updates' = Append(updates, Update(Info', "Pipeline.updateStartTime"))
    ELSE UNCHANGED <<pstate, Info, updates>>

\* Pipeline.handleMessageStateChanged; t is what SDKSource.GetStartTime reports
handleMessageStateChanged(msg, t) ==
    IF playing \/ msg.newState # "PLAYING"
    THEN UNCHANGED <<playing, srcPlaying, pstate, Info, updates>>
    ELSE IF msg.source \in Tracks
    THEN /\ srcPlaying' = srcPlaying \cup {msg.source}
         /\ UNCHANGED <<playing, pstate, Info, updates>>
    ELSE /\ playing' = TRUE
         /\ UNCHANGED srcPlaying
         /\ IF SourceType = "sdk" THEN updateStartTime(t) ELSE updateStartTime(now)

\* a reset that arms a timer even when none was set
ResetTimerAlways == NewTimer

\* timer.Reset(eosTimeout) when p.eosTimer is set
ResetTimer == IF eosTimer.set THEN NewTimer ELSE eosTimer

\* Pipeline.handleMessageElement: the error it returns and the state it leaves
handleMessageElement(msg) ==
    LET same == [err |-> NoErr, eosTimer |-> eosTimer, segOpen |-> segOpen,
                 segQueue |-> segQueue, startDateSet |-> startDateSet]
    IN  IF msg.name = msgFragmentOpened
        THEN IF ~msg.decodeOk THEN [same EXCEPT !.eosTimer = ResetTimer, !.err = ErrDecode]
             ELSE IF ~msg.sinkOk THEN [same EXCEPT !.eosTimer = ResetTimer, !.err = ErrSink]
             ELSE [same EXCEPT !.eosTimer = ResetTimer, !.segOpen = segOpen \cup {msg.seg}]
        ELSE IF msg.name = msgFragmentClosed
        THEN IF ~msg.decodeOk THEN [same EXCEPT !.eosTimer = ResetTimer, !.err = ErrDecode]
             ELSE IF ~msg.sinkOk THEN [same EXCEPT !.eosTimer = ResetTimer, !.err = ErrSink]
             ELSE [same EXCEPT !.eosTimer = ResetTimer,
                               !.segQueue = IF \E i \in 1..Len(segQueue) : segQueue[i] = msg.seg
                                            THEN segQueue
                                            ELSE Append(segQueue, msg.seg)]
        ELSE IF msg.name = msgFirstSampleMetadata
        THEN IF ~msg.decodeOk THEN [same EXCEPT !.err = ErrDecode]
             ELSE [same EXCEPT !.startDateSet = TRUE]
        ELSE same

\* a watch that posts the error of a handler and goes on watching
PostFailureKeepsWatching(err) ==
    IF err # NoErr
    THEN /\ failureMade
         /\ Len(Failure) < FailureCap
         /\ Failure' = Append(Failure, err)
         /\ UNCHANGED watching
    ELSE UNCHANGED <<Failure, watching>>

\* messageWatch, lines 55-60: a handler's error is posted on p.Failure and
\* the watch ends; otherwise the loop keeps watching
PostFailure(err) ==
    IF err # NoErr
    THEN /\ failureMade
         /\ Len(Failure) < FailureCap
         /\ Failure' = Append(Failure, err)
         /\ watching' = FALSE
    ELSE UNCHANGED <<Failure, watching>>

\* messageWatch, case gst.MessageEOS
MessageWatchEOS ==
    /\ BusReady
    /\ handleMessageEOS
    /\ UNCHANGED <<auxVars, mgrVars, procVars, srvVars, running, Info, SourceType, playing, closed,
                   Failure, sinkVars, histVars>>

\* messageWatch, case gst.MessageWarning
MessageWatchWarning(msg) ==
    /\ BusReady
    /\ PostFailure(handleMessageWarning(msg))
    /\ UNCHANGED <<auxVars, mgrVars, procVars, srvVars, pstate, running, Info, SourceType, playing,
                   closed, eosTimer, sinkVars, histVars>>

\* messageWatch, case gst.MessageError
MessageWatchError(msg) ==
    /\ BusReady
    /\ LET r == handleMessageError(msg)
       IN /\ urls' = r.urls
          /\ bindings' = r.bindings
          /\ updates' = r.updates
          /\ srcStopped' = r.srcStopped
          /\ PostFailure(r.err)
    /\ UNCHANGED <<auxVars, mgrVars, procVars, srvVars, pstate, running, Info, SourceType, playing,
                   closed, eosTimer, rtmpElems, others, srcPlaying, segOpen, segQueue,
                   startDateSet, eosAgain, timerArms, now>>

\* messageWatch, case gst.MessageStateChanged
MessageWatchStateChanged(msg, t) ==
    /\ BusReady
    /\ handleMessageStateChanged(msg, t)
    /\ UNCHANGED <<auxVars, mgrVars, procVars, srvVars, running, SourceType, closed, eosTimer,
                   watching, Failure, urls, bindings, rtmpElems, others, srcStopped,
                   segOpen, segQueue, startDateSet, eosAgain, timerArms, now>>

\* messageWatch, case gst.MessageElement
MessageWatchElement(msg) ==
    /\ BusReady
    /\ LET r == handleMessageElement(msg)
       IN /\ eosTimer' = r.eosTimer
          /\ segOpen' = r.segOpen
          /\ segQueue' = r.segQueue
          /\ startDateSet' = r.startDateSet
          /\ PostFailure(r.err)
    /\ UNCHANGED <<auxVars, mgrVars, procVars, srvVars, pstate, running, Info, SourceType, playing,
                   closed, urls, bindings, rtmpElems, others, srcPlaying, srcStopped,
                   histVars>>

\* ------------------------------------------------------------- Pipeline.Run

\* Run's failure-channel consumer: the first error is recorded and the
\* pipeline enters Ending, where the EOS safety timer is armed
RunConsumeFailure ==
    /\ Alive
    /\ running
    /\ pstate \in {"Starting", "Playing", "Ending"}
    /\ failureMade
    /\ Failure # <<>>
    /\ Info.error = NoErr
    /\ Failure' = Tail(Failure)
    /\ Info' = [Info EXCEPT !.error = Head(Failure)]
    /\ pstate' = "Ending"
    /\ eosTimer' = IF eosTimer.set THEN eosTimer ELSE NewTimer
    /\ UNCHANGED <<auxVars, mgrVars, procVars, srvVars, running, SourceType, playing, closed,
                   watching, sinkVars, histVars>>

\* the source runs out of input: the controller issues EOS itself
InputExhausted ==
    /\ Alive
    /\ running
    /\ pstate = "Playing"
    /\ SendEOS
    /\ UNCHANGED <<auxVars, mgrVars, procVars, srvVars, sendEOSFrame, now>>

\* eosTimeout passes without the timer being reset
EosTimerElapse ==
    /\ Alive
    /\ eosTimer.active
    /\ ~eosTimer.elapsed
    /\ eosTimer' = [eosTimer EXCEPT !.elapsed = TRUE]
    /\ UNCHANGED <<auxVars, mgrVars, procVars, srvVars, pstate, running, Info, SourceType, playing,
                   closed, watching, Failure, sinkVars, histVars>>

\* the EOS safety timer expires: the pipeline is force-stopped
EosTimerFire ==
    /\ Alive
    /\ eosTimer.active
    /\ eosTimer.elapsed
    /\ eosTimer' = [eosTimer EXCEPT !.active = FALSE]
    /\ stop
    /\ UNCHANGED <<auxVars, mgrVars, procVars, srvVars, running, Info, SourceType, playing,
                   closed, Failure, sinkVars, histVars>>

\* Pipeline.Run returns the terminal EgressInfo on the result channel
RunReturn ==
    /\ Alive
    /\ running
    /\ pstate = "Terminated"
    /\ Info' = [Info EXCEPT !.status = IF Info.error # NoErr THEN FAILED ELSE COMPLETE,
                            !.updatedAt = now, !.endedAt = now]
    /\ result' = Append(result, Info')
    /\ running' = FALSE
    /\ UNCHANGED <<auxVars, mgrVars, procVars, rpcServer, grpcServer, pstate, SourceType, playing,
                   closed, eosTimer, watching, Failure, sinkVars, histVars>>

\* ---------------------------------------------------------------- handler RPCs

AllUrls == {"u1", "u2", "u3"}

\* UpdateStreamRequest, one URL at a time
StreamRequests == [op : {"add", "remove"}, url : AllUrls]

InList(us, u) == \E i \in 1..Len(us) : us[i] = u

\* the stream output as UpdateStream sees it
Sink ==
    [err |-> NoErr, urls |-> urls, bindings |-> bindings, elems |-> rtmpElems,
     Failure |-> Failure]

\* StreamOutput.AddStream: a new sink element is created and bound to the URL
AddStream(sk, u) ==
    LET e == CHOOSE x \in Elems \ sk.elems : TRUE
    IN  [sk EXCEPT !.urls = Append(sk.urls, u),
                   !.bindings = [sk.bindings EXCEPT ![e] = u],
                   !.elems = sk.elems \cup {e}]

\* RemoveStream that leaves the URL bound to its element
RemoveStreamKeepsBinding(sk, u) ==
    [sk EXCEPT !.urls = RemoveFromList(sk.urls, u),
               !.Failure = IF RemoveFromList(sk.urls, u) = <<>> /\ others = {}
                           THEN Append(sk.Failure, ErrGstPipelineError)
                           ELSE sk.Failure]

\* StreamOutput.RemoveStream: the URL and its binding are dropped; when no
\* output of any kind is left the pipeline is failed
RemoveStream(sk, u) ==
    [sk EXCEPT !.urls = RemoveFromList(sk.urls, u),
               !.bindings = [e \in Elems |-> IF sk.bindings[e] = u THEN NoUrl
                                             ELSE sk.bindings[e]],
               !.Failure = IF RemoveFromList(sk.urls, u) = <<>> /\ others = {}
                           THEN Append(sk.Failure, ErrGstPipelineError)
                           ELSE sk.Failure]

\* Pipeline.UpdateStream on stream output sk: rejected when the job has no
\* stream output, when the URL to add is already there or the URL to remove
\* is not
UpdateStreamOn(sk, req) ==
    IF sk.elems = {}
    THEN [sk EXCEPT !.err = ErrNonStreamingPipeline]
    ELSE IF req.op = "add"
    THEN IF InList(sk.urls, req.url)
         THEN [sk EXCEPT !.err = ErrStreamAlreadyExists]
         ELSE [AddStream(sk, req.url) EXCEPT !.err = NoErr]
    ELSE IF ~InList(sk.urls, req.url)
         THEN [sk EXCEPT !.err = ErrStreamNotFound]
         ELSE [RemoveStream(sk, req.url) EXCEPT !.err = NoErr]

\* the requests followed: an element is free for a URL to add, and the
\* pipeline has not failed yet
CanUpdateStream(req) ==
    /\ req.op = "add" => Elems \ rtmpElems # {}
    /\ Failure = <<>>

\* Pipeline.UpdateStream: the state it leaves
UpdateStream(req) ==
    LET r == UpdateStreamOn(Sink, req)
    IN  /\ urls' = r.urls
        /\ bindings' = r.bindings
        /\ rtmpElems' = r.elems
        /\ Failure' = r.Failure

\* Handler.UpdateStream, served by the bus RPC server
HandlerUpdateStream(req) ==
    /\ version = 1
    /\ Alive
    /\ rpcServer = "serving"
    /\ CanUpdateStream(req)
    /\ IF pstate = "Building"
       THEN /\ resp' = [NoResp EXCEPT !.op = req.op, !.err = ErrEgressNotFound]
            /\ UNCHANGED <<urls, bindings, rtmpElems, Failure>>
       ELSE /\ UpdateStream(req)
            /\ resp' = IF UpdateStreamOn(Sink, req).err # NoErr
                       THEN [NoResp EXCEPT !.op = req.op,
                                           !.err = UpdateStreamOn(Sink, req).err]
                       ELSE [op |-> req.op, hasInfo |-> TRUE, info |-> Info, err |-> NoErr]
    /\ UNCHANGED <<mgrVars, procVars, srvVars, pstate, running, Info, SourceType, playing,
                   closed, eosTimer, watching, others, srcPlaying, srcStopped, segOpen,
                   segQueue, startDateSet, histVars, dot, upl, conf, failureMade, pm>>

\* HandlerV0.Run, case msg := <-requests.Channel() with an UpdateStream
\* request: p.Info and the error are handed to sendResponse together
HandlerV0RunRequest(req) ==
    /\ version = 0
    /\ hpc = "running"
    /\ CanUpdateStream(req)
    /\ UpdateStream(req)
    /\ resp' = [op |-> req.op, hasInfo |-> TRUE, info |-> Info,
                 err |-> UpdateStreamOn(Sink, req).err]
    /\ UNCHANGED <<mgrVars, procVars, srvVars, pstate, running, Info, SourceType, playing,
                   closed, eosTimer, watching, others, srcPlaying, srcStopped, segOpen,
                   segQueue, startDateSet, histVars, dot, upl, conf, failureMade, pm>>

\* Handler.StopEgress without the check for a constructed pipeline
HandlerStopEgressNoCheck ==
    /\ version = 1
    /\ Alive
    /\ rpcServer = "serving"
    /\ SendEOS
    /\ resp' = [op |-> "stop", hasInfo |-> TRUE, info |-> Info', err |-> NoErr]
    /\ UNCHANGED <<mgrVars, procVars, srvVars, sendEOSFrame, now, dot, upl, conf,
                   failureMade, pm>>

\* Handler.StopEgress, served by the bus RPC server, with its response
HandlerStopEgress ==
    /\ version = 1
    /\ Alive
    /\ rpcServer = "serving"
    /\ IF pstate = "Building"
       THEN /\ resp' = [NoResp EXCEPT !.op = "stop", !.err = ErrEgressNotFound]
            /\ UNCHANGED <<closed, eosTimer, timerArms, pstate, Info, updates, eosAgain>>
       ELSE /\ SendEOS
            /\ resp' = [op |-> "stop", hasInfo |-> TRUE, info |-> Info', err |-> NoErr]
    /\ UNCHANGED <<mgrVars, procVars, srvVars, sendEOSFrame, now, dot, upl, conf,
                   failureMade, pm>>

\* what pprof.GetProfileData may return
ErrProfile == "profile error"

\* Handler.GetPProf, served by the socket RPC server
GetPProf(profiled) ==
    /\ version = 1
    /\ Alive
    /\ grpcServer = "serving"
    /\ resp' = [NoResp EXCEPT !.op = "pprof",
                              !.err = IF pstate = "Building" THEN ErrEgressNotFound
                                      ELSE IF profiled THEN NoErr ELSE ErrProfile]
    /\ UNCHANGED <<mgrVars, procVars, srvVars, pipeVars, sinkVars, histVars, dot, upl,
                   conf, failureMade, pm>>

\* capacity of the res channel of GetPipelineDot
DotResCap == 1

dotFrame ==
    <<mgrVars, procVars, srvVars, pipeVars, sinkVars, histVars, resp, upl, conf, failureMade, pm>>

\* Handler.GetPipelineDot up to the select: the helper task is started
GetPipelineDot ==
    /\ version = 1
    /\ Alive
    /\ grpcServer = "serving"
    /\ dot.phase = "idle"
    /\ dot.helper # "running"
    /\ dot' = IF pstate = "Building"
              THEN [NoDot EXCEPT !.reply = ErrEgressNotFound]
              ELSE [NoDot EXCEPT !.phase = "waiting", !.helper = "running"]
    /\ UNCHANGED dotFrame

\* a helper task on an unbuffered channel: it can only hand its result to a
\* request that is still waiting
DotHelperSendUnbuffered ==
    /\ Alive
    /\ dot.helper = "running"
    /\ dot.phase = "waiting"
    /\ dot' = [dot EXCEPT !.res = Append(dot.res, "dot"), !.helper = "done"]
    /\ UNCHANGED dotFrame

\* the helper task: res <- h.pipeline.GetGstPipelineDebugDot()
DotHelperSend ==
    /\ Alive
    /\ dot.helper = "running"
    /\ Len(dot.res) < DotResCap
    /\ dot' = [dot EXCEPT !.res = Append(dot.res, "dot"), !.helper = "done"]
    /\ UNCHANGED dotFrame

\* time.After(2 * time.Second) fires
DotDeadline ==
    /\ Alive
    /\ dot.phase = "waiting"
    /\ ~dot.elapsed
    /\ dot' = [dot EXCEPT !.elapsed = TRUE]
    /\ UNCHANGED dotFrame

\* Handler.GetPipelineDot, the select: one of the ready cases is taken
GetPipelineDotReturn ==
    /\ Alive
    /\ dot.phase = "waiting"
    /\ \/ /\ dot.res # <<>>
          /\ dot' = [dot EXCEPT !.phase = "idle", !.reply = Head(dot.res), !.res = Tail(dot.res)]
       \/ /\ dot.elapsed
          /\ dot' = [dot EXCEPT !.phase = "idle", !.reply = DeadlineExceeded]
    /\ UNCHANGED dotFrame

\* the handler of job j in its select loop, the pipeline started, with errors
\* pending on the failure channel
RunningJob(j, pending) ==
    LET b == [e \in Elems |->
                IF e = "e1" /\ Len(j.urls) >= 1 THEN j.urls[1]
                ELSE IF e = "e2" /\ Len(j.urls) >= 2 THEN j.urls[2]
                ELSE NoUrl]
        i == [status |-> STARTING, updatedAt |-> 1, endedAt |-> 0, error |-> NoErr]
    IN  /\ activeHandlers = {"EG_1"}
        /\ minfo = i
        /\ pclosed = FALSE
        /\ cleaned = FALSE
        /\ version = j.version
        /\ hpc = "running"
        /\ retCode = 0
        /\ exitCode = -1
        /\ kill = FALSE
        /\ rpcServer = IF j.version = 1 THEN "serving" ELSE "none"
        /\ grpcServer = "serving"
        /\ result = <<>>
        /\ pstate = "Starting"
        /\ running = TRUE
        /\ Info = i
        /\ SourceType = j.source
        /\ playing = FALSE
        /\ closed = FALSE
        /\ eosTimer = NoTimer
        /\ watching = TRUE
        /\ Failure = pending
        /\ urls = j.urls
        /\ bindings = b
        /\ rtmpElems = {e \in Elems : b[e] # NoUrl}
        /\ others = j.others
        /\ srcPlaying = {}
        /\ srcStopped = {}
        /\ segOpen = {}
        /\ segQueue = <<>>
        /\ startDateSet = FALSE
        /\ updates = <<>>
        /\ eosAgain = FALSE
        /\ timerArms = 0
        /\ now = 1

RpcInit == \E j \in Jobs : AuxInit /\ RunningJob(j, <<>>)

RpcNext ==
    \/ \E req \in StreamRequests : HandlerUpdateStream(req)
    \/ \E req \in StreamRequests : HandlerV0RunRequest(req)
    \/ GetPipelineDot
    \/ DotHelperSend
    \/ DotDeadline
    \/ GetPipelineDotReturn
    \/ \E msg \in ErrorMsgs : MessageWatchError(msg)
    \/ \E msg \in StateChangedMsgs : MessageWatchStateChanged(msg, now)

\* the RPC surface of a running handler
RpcSpec == RpcInit /\ [][RpcNext]_vars

\* --------------------------------------------------------------- segment sink

IsPrefix(a, b) == Len(a) <= Len(b) /\ \A i \in 1..Len(a) : a[i] = b[i]

\* the split-muxer of an HLS job opens its segments in order and closes each
\* one once, in order
UploadMsgs ==
    [type : {"Element"}, name : {msgFragmentOpened},
     seg : {g \in 1..MaxUploads : g = Cardinality(segOpen) + 1},
     decodeOk : BOOLEAN, sinkOk : BOOLEAN]
    \cup [type : {"Element"}, name : {msgFragmentClosed},
          seg : {g \in segOpen : g = Len(segQueue) + 1},
          decodeOk : BOOLEAN, sinkOk : BOOLEAN]

uplFrame ==
    <<mgrVars, procVars, srvVars, pipeVars, sinkVars, histVars, resp, dot, conf, failureMade, pm>>

\* an upload worker that takes the next segment while the playlist of the
\* previous one is still being uploaded
WorkerTakeAsync ==
    /\ Alive
    /\ upl.stage \in {"idle", "playlist"}
    /\ ~upl.ended
    /\ upl.taken < Len(segQueue)
    /\ upl' = [upl EXCEPT !.taken = upl.taken + 1, !.stage = "segment"]
    /\ UNCHANGED uplFrame

\* the single consumer takes the next enqueued segment and uploads it
WorkerTake ==
    /\ Alive
    /\ upl.stage = "idle"
    /\ ~upl.ended
    /\ upl.taken < Len(segQueue)
    /\ upl' = [upl EXCEPT !.taken = upl.taken + 1, !.stage = "segment"]
    /\ UNCHANGED uplFrame

\* the segment is stored: the playlist model is updated and its upload starts
WorkerUpdatePlaylist ==
    /\ Alive
    /\ upl.stage = "segment"
    /\ LET pl == Append(upl.playlist, segQueue[upl.taken])
       IN  upl' = [upl EXCEPT !.playlist = pl, !.stage = "playlist",
                              !.inflight = upl.inflight \cup {pl}]
    /\ UNCHANGED uplFrame

\* a playlist upload completes, after whatever time it takes
PlaylistStored ==
    /\ Alive
    /\ \E v \in upl.inflight :
          upl' = [upl EXCEPT !.stored = v, !.inflight = upl.inflight \ {v},
                             !.stage = IF upl.stage = "playlist" /\ v = upl.playlist
                                       THEN "idle" ELSE upl.stage]
    /\ UNCHANGED uplFrame

\* a sink closed without waiting for its queue
SinkCloseNoDrain ==
    /\ Alive
    /\ pstate = "Terminated"
    /\ ~upl.ended
    /\ upl.stage = "idle"
    /\ upl.inflight = {}
    /\ upl' = [upl EXCEPT !.ended = TRUE, !.stored = upl.playlist]
    /\ UNCHANGED uplFrame

\* on EOS the queue is drained, the end tag written and the final playlist
\* uploaded
SinkClose ==
    /\ Alive
    /\ pstate = "Terminated"
    /\ ~upl.ended
    /\ upl.stage = "idle"
    /\ upl.inflight = {}
    /\ upl.taken = Len(segQueue)
    /\ upl' = [upl EXCEPT !.ended = TRUE, !.stored = upl.playlist]
    /\ UNCHANGED uplFrame

\* a handler serving the running pipeline of an HLS job
SegmentInit == RpcInit /\ "segments" \in others

SegmentNext ==
    \/ \E msg \in UploadMsgs : MessageWatchElement(msg)
    \/ WorkerTake
    \/ WorkerUpdatePlaylist
    \/ PlaylistStored
    \/ StopEgress
    \/ MessageWatchEOS
    \/ SinkClose

\* the segment sink of a running HLS job
SegmentSpec == SegmentInit /\ [][SegmentNext]_vars

\* ------------------------------------------------------------ pipeline config

MimeTypeOpus == "audio/opus"
MimeTypeAAC == "audio/aac"
MimeTypeH264 == "video/h264"
NoCodec == ""

OutputTypeUnknownFile == "unknown"
OutputTypeMP4 == "mp4"
OutputTypeOGG == "ogg"
OutputTypeRTMP == "rtmp"
OutputTypeHLS == "hls"

EgressTypeFile == "file"
EgressTypeStream == "stream"
EgressTypeSegments == "segments"

\* the codec tables of the types package
AllOutputAudioCodecs == {MimeTypeOpus, MimeTypeAAC}
AllOutputVideoCodecs == {MimeTypeH264}

CodecCompatibility(ot) ==
    CASE ot = OutputTypeOGG -> {MimeTypeOpus}
      [] ot = OutputTypeMP4 -> {MimeTypeAAC, MimeTypeOpus, MimeTypeH264}
      [] ot = OutputTypeRTMP -> {MimeTypeAAC, MimeTypeH264}
      [] ot = OutputTypeHLS -> {MimeTypeAAC, MimeTypeH264}
      [] OTHER -> {MimeTypeAAC, MimeTypeOpus, MimeTypeH264}

DefaultAudioCodecs(ot) ==
    CASE ot = OutputTypeOGG -> MimeTypeOpus
      [] ot \in {OutputTypeMP4, OutputTypeRTMP, OutputTypeHLS} -> MimeTypeAAC
      [] OTHER -> NoCodec

DefaultVideoCodecs(ot) ==
    CASE ot \in {OutputTypeMP4, OutputTypeRTMP, OutputTypeHLS} -> MimeTypeH264
      [] OTHER -> NoCodec

FileExtensions == {".mp4", ".ogg", ".webm"}

FileExtensionForOutputType(ot) ==
    CASE ot = OutputTypeMP4 -> ".mp4"
      [] ot = OutputTypeOGG -> ".ogg"
      [] OTHER -> ""

AudioOnlyFileOutputTypes == <<OutputTypeOGG, OutputTypeMP4>>
VideoOnlyFileOutputTypes == <<OutputTypeMP4>>
AudioVideoFileOutputTypes == <<OutputTypeMP4>>

\* a nil codec map
NilCodecs == {"nil"}

IsOutputTypeCompatibleWithCodecs(ot, codecs) == codecs \cap CodecCompatibility(ot) # {}

GetOutputTypeCompatibleWithCodecs(types, audioCodecs, videoCodecs) ==
    LET ok == {i \in 1..Len(types) :
                  /\ audioCodecs # NilCodecs => IsOutputTypeCompatibleWithCodecs(types[i], audioCodecs)
                  /\ videoCodecs # NilCodecs => IsOutputTypeCompatibleWithCodecs(types[i], videoCodecs)}
    IN  IF ok = {} THEN OutputTypeUnknownFile
        ELSE types[CHOOSE i \in ok : \A j \in ok : i <= j]

\* errors of the config package
NoError == [name |-> "nil", outputType |-> "", codec |-> ""]
ErrNoCompatibleCodec == [name |-> "ErrNoCompatibleCodec", outputType |-> "", codec |-> ""]
ErrNoCompatibleFileOutputType ==
    [name |-> "ErrNoCompatibleFileOutputType", outputType |-> "", codec |-> ""]
ErrInvalidInput == [name |-> "ErrInvalidInput", outputType |-> "", codec |-> ""]
ErrIncompatible(ot, codec) == [name |-> "ErrIncompatible", outputType |-> ot, codec |-> codec]

\* Strings are sequences of atoms: a token, a literal piece, "/" or an
\* extension.  The orders in which a Go map may be iterated:
RECURSIVE Orders(_)
Orders(S) ==
    IF S = {} THEN {<<>>}
    ELSE UNION {{<<x>> \o o : o \in Orders(S \ {x})} : x \in S}

\* strings.Replace(s, template, value, -1)
RECURSIVE ReplaceAll(_, _, _)
ReplaceAll(s, template, value) ==
    IF s = <<>> THEN <<>>
    ELSE (IF Head(s) = template THEN value ELSE <<Head(s)>>)
             \o ReplaceAll(Tail(s), template, value)

RECURSIVE stringReplaceIn(_, _, _)
stringReplaceIn(s, replacements, order) ==
    IF order = <<>> THEN s
    ELSE stringReplaceIn(ReplaceAll(s, Head(order), replacements[Head(order)]),
                         replacements, Tail(order))

\* the strings stringReplace may return, one for each iteration order of the map
stringReplace(s, replacements) ==
    {stringReplaceIn(s, replacements, order) : order \in Orders(DOMAIN replacements)}

\* now.Format("2006-01-02T150405") and the {utc} value
Format(t) == "T" \o ToString(t)
FormatUtc(t) == "U" \o ToString(t)

RoomId == <<"id">>

getFilenameInfo(p) ==
    IF p.RoomName # <<>>
    THEN [identifier |-> p.RoomName,
          replacements |->
              [k \in {"{room_name}", "{room_id}", "{time}", "{utc}"} |->
                  CASE k = "{room_name}" -> p.RoomName
                    [] k = "{room_id}" -> RoomId
                    [] k = "{time}" -> <<Format(now)>>
                    [] OTHER -> <<FormatUtc(now)>>]]
    ELSE [identifier |-> <<"web">>,
          replacements |->
              [k \in {"{time}", "{utc}"} |->
                  IF k = "{time}" THEN <<Format(now)>> ELSE <<FormatUtc(now)>>]]

\* atoms that begin with a dot
DotAtoms == FileExtensions \cup {".txt"}

HasSuffix(s, a) == a = "" \/ (s # <<>> /\ s[Len(s)] = a)

\* updateFilepath that never takes the room name as identifier
updateFilepathWeb(o, identifier, replacements) ==
    {LET ext == FileExtensionForOutputType(o.OutputType)
         sp  == IF r = <<>> \/ HasSuffix(r, "/")
                THEN r \o <<"web", "-", Format(now)>> \o (IF ext = "" THEN <<>> ELSE <<ext>>)
                ELSE r
     IN  [o EXCEPT !.StorageFilepath = sp, !.Filename = sp, !.LocalFilepath = sp,
                   !.resolved = r, !.updated = TRUE]
     : r \in stringReplace(o.StorageFilepath, replacements)}

\* updateFilepath that appends the extension without looking for an existing one
updateFilepathNoStrip(o, identifier, replacements) ==
    {LET ext  == FileExtensionForOutputType(o.OutputType)
         extS == IF ext = "" THEN <<>> ELSE <<ext>>
         sp   == IF r = <<>> \/ HasSuffix(r, "/")
                 THEN r \o identifier \o <<"-", Format(now)>> \o extS
                 ELSE IF ~HasSuffix(r, ext) THEN r \o extS
                 ELSE r
     IN  [o EXCEPT !.StorageFilepath = sp, !.Filename = sp, !.LocalFilepath = sp,
                   !.resolved = r, !.updated = TRUE]
     : r \in stringReplace(o.StorageFilepath, replacements)}

\* FileConfig.updateFilepath for a request without upload target; resolved
\* and updated record the path after substitution and that the call was made
updateFilepath(o, identifier, replacements) ==
    {LET ext  == FileExtensionForOutputType(o.OutputType)
         extS == IF ext = "" THEN <<>> ELSE <<ext>>
         dots == {i \in 1..Len(r) : r[i] \in DotAtoms}
         extIdx == CHOOSE i \in dots : \A j \in dots : j <= i
         sp   == IF r = <<>> \/ HasSuffix(r, "/")
                 THEN r \o identifier \o <<"-", Format(now)>> \o extS
                 ELSE IF ~HasSuffix(r, ext)
                 THEN (IF dots # {} /\ extIdx = Len(r) /\ r[extIdx] \in FileExtensions
                       THEN SubSeq(r, 1, extIdx - 1) ELSE r) \o extS
                 ELSE r
     IN  [o EXCEPT !.StorageFilepath = sp, !.Filename = sp, !.LocalFilepath = sp,
                   !.resolved = r, !.updated = TRUE]
     : r \in stringReplace(o.StorageFilepath, replacements)}

\* clean, for paths without dot elements or repeated slashes
clean(filepath) ==
    LET hasEndingSlash == HasSuffix(filepath, "/")
        cleaned0 == IF filepath = <<>> THEN <<".">>
                    ELSE IF hasEndingSlash /\ Len(filepath) > 1
                    THEN SubSeq(filepath, 1, Len(filepath) - 1)
                    ELSE filepath
    IN  IF cleaned0 \in {<<>>, <<".">>, <<"..">>} THEN <<>>
        ELSE IF hasEndingSlash /\ cleaned0 # <<"/">> THEN cleaned0 \o <<"/">>
        ELSE cleaned0

NoOutput(ot) ==
    [OutputType |-> ot, StorageFilepath |-> <<>>, LocalFilepath |-> <<>>,
     Filename |-> <<>>, resolved |-> <<>>, updated |-> FALSE]

\* the segment output as the request leaves it: every templated field still
\* holds a token of the replacements
SegmentConfig ==
    [OutputType |-> OutputTypeHLS,
     LocalDir |-> <<"{room_id}">>,
     StorageDir |-> <<"{room_id}", "/">>,
     PlaylistFilename |-> <<"{room_id}", ".m3u8">>,
     SegmentPrefix |-> <<"{room_id}", "_">>,
     PlaylistName |-> <<"{room_id}", ".m3u8">>]

getFileConfig(p, outputType, filepath) ==
    LET o == [NoOutput(outputType) EXCEPT !.StorageFilepath = clean(filepath)]
        info == getFilenameInfo(p)
    IN  IF outputType # OutputTypeUnknownFile
        THEN updateFilepath(o, info.identifier, info.replacements)
        ELSE {[o EXCEPT !.StorageFilepath = r] :
                 r \in stringReplace(o.StorageFilepath, info.replacements)}

OutputTypeOf(p, e) == p.Outputs[e].OutputType

\* the codecs of start left after the first k outputs of the iteration
Intersection(start, p, order, k) ==
    {c \in start : \A i \in 1..k : c \in CodecCompatibility(OutputTypeOf(p, order[i]))}

validateAndUpdateOutputCodecs(p) ==
    {LET audioStart == IF p.AudioOutCodec = NoCodec THEN AllOutputAudioCodecs
                       ELSE {p.AudioOutCodec}
         videoStart == IF p.VideoOutCodec = NoCodec THEN AllOutputVideoCodecs
                       ELSE {p.VideoOutCodec}
         n == Len(oa)
         audioFail == {k \in 1..n : Intersection(audioStart, p, oa, k) = {}}
         videoFail == {k \in 1..n : Intersection(videoStart, p, ov, k) = {}}
         ka == CHOOSE k \in audioFail : \A j \in audioFail : k <= j
         kv == CHOOSE k \in videoFail : \A j \in videoFail : k <= j
     IN  IF p.AudioEnabled /\ audioFail # {}
         THEN [audio |-> {}, video |-> {},
               err |-> IF p.AudioOutCodec = NoCodec THEN ErrNoCompatibleCodec
                       ELSE ErrIncompatible(OutputTypeOf(p, oa[ka]), p.AudioOutCodec)]
         ELSE IF p.VideoEnabled /\ videoFail # {}
         THEN [audio |-> {}, video |-> {},
               err |-> IF p.AudioOutCodec = NoCodec THEN ErrNoCompatibleCodec
                       ELSE ErrIncompatible(OutputTypeOf(p, ov[kv]), p.VideoOutCodec)]
         ELSE [audio |-> IF p.AudioEnabled THEN Intersection(audioStart, p, oa, n) ELSE {},
               video |-> IF p.VideoEnabled THEN Intersection(videoStart, p, ov, n) ELSE {},
               err |-> NoError]
     : oa \in Orders(DOMAIN p.Outputs), ov \in Orders(DOMAIN p.Outputs)}

updateOutputType(p, compatibleAudioCodecs, compatibleVideoCodecs) ==
    IF \/ EgressTypeFile \notin DOMAIN p.Outputs
       \/ OutputTypeOf(p, EgressTypeFile) # OutputTypeUnknownFile
    THEN {[p |-> p, err |-> NoError]}
    ELSE LET ot == IF ~p.VideoEnabled
                   THEN GetOutputTypeCompatibleWithCodecs(
                            AudioOnlyFileOutputTypes, compatibleAudioCodecs, NilCodecs)
                   ELSE IF ~p.AudioEnabled
                   THEN GetOutputTypeCompatibleWithCodecs(
                            VideoOnlyFileOutputTypes, NilCodecs, compatibleVideoCodecs)
                   ELSE GetOutputTypeCompatibleWithCodecs(
                            AudioVideoFileOutputTypes, compatibleAudioCodecs,
                            compatibleVideoCodecs)
             o == [p.Outputs[EgressTypeFile] EXCEPT !.OutputType = ot]
             info == getFilenameInfo(p)
         IN  IF ot = OutputTypeUnknownFile
             THEN {[p |-> p, err |-> ErrNoCompatibleFileOutputType]}
             ELSE {[p |-> [p EXCEPT !.Outputs[EgressTypeFile] = o2], err |-> NoError] :
                      o2 \in updateFilepath(o, info.identifier, info.replacements)}

\* a selection that takes the default codec of any output
selectAudioOutCodecAnyDefault(p, compatibleAudioCodecs) ==
    IF ~p.AudioEnabled THEN {p.AudioOutCodec}
    ELSE {DefaultAudioCodecs(OutputTypeOf(p, e)) : e \in DOMAIN p.Outputs}

\* the audio codecs the selection loop may leave in p.AudioOutCodec
selectAudioOutCodec(p, compatibleAudioCodecs) ==
    LET defaults == {DefaultAudioCodecs(OutputTypeOf(p, e)) : e \in DOMAIN p.Outputs}
                        \cap compatibleAudioCodecs
    IN  IF ~p.AudioEnabled THEN {p.AudioOutCodec}
        ELSE IF defaults # {} THEN defaults
        ELSE IF p.AudioOutCodec = NoCodec /\ compatibleAudioCodecs # {}
        THEN compatibleAudioCodecs
        ELSE {p.AudioOutCodec}

\* the video codecs the selection loop may leave in p.VideoOutCodec
selectVideoOutCodec(p, compatibleVideoCodecs) ==
    LET defaults == {DefaultVideoCodecs(OutputTypeOf(p, e)) : e \in DOMAIN p.Outputs}
                        \cap compatibleVideoCodecs
    IN  IF ~p.VideoEnabled THEN {p.VideoOutCodec}
        ELSE IF defaults # {} THEN defaults
        ELSE IF p.VideoOutCodec = NoCodec /\ compatibleVideoCodecs # {}
        THEN compatibleVideoCodecs
        ELSE {p.VideoOutCodec}

validateAndUpdateOutputParams(p) ==
    UNION {IF v.err # NoError THEN {[p |-> p, err |-> v.err]}
           ELSE UNION {IF u.err # NoError THEN {u}
                       ELSE {[p |-> [u.p EXCEPT !.AudioOutCodec = a, !.VideoOutCodec = c],
                              err |-> NoError] :
                                a \in selectAudioOutCodec(u.p, v.audio),
                                c \in selectVideoOutCodec(u.p, v.video)}
                       : u \in updateOutputType(p, v.audio, v.video)}
           : v \in validateAndUpdateOutputCodecs(p)}

\* the requests followed: composite and web requests with encoded outputs
RoomNames == {<<>>, <<"r">>, <<"{time}">>}
Filepaths ==
    {<<>>, <<"d", "/">>, <<"f">>, <<"f", ".ogg">>, <<"{room_name}", ".mp4">>,
     <<"{room_name}", "-", "{time}">>, <<"f", ".mp4", ".ogg">>, <<"f", ".txt">>}

\* requests with valid identification and connection parameters
EncodedRequests ==
    {r \in [variant : {"RoomComposite", "Web", "TrackComposite"},
            EgressId : {"EG"}, Token : {"tok"}, ApiKeys : {FALSE},
            WsUrl : {"ws"}, ConfWsUrl : {""}, UrlScheme : {"https"},
            TrackId : {""}, DirectOutputOk : {TRUE},
            RoomName : RoomNames,
            FileType : {"none", OutputTypeUnknownFile, OutputTypeMP4, OutputTypeOGG},
            Filepath : Filepaths,
            Stream : BOOLEAN, Segments : BOOLEAN,
            AudioEnabled : BOOLEAN, VideoEnabled : BOOLEAN,
            AudioCodec : {NoCodec, MimeTypeOpus, MimeTypeAAC},
            VideoCodec : {NoCodec, MimeTypeH264}] :
        /\ r.AudioEnabled \/ r.VideoEnabled
        /\ r.FileType # "none" \/ r.Stream \/ r.Segments
        /\ r.FileType = "none" => r.Filepath = <<>>
        /\ r.variant = "Web" => r.RoomName = <<>>}

\* requests of every variant with one file output, whose identification,
\* connection parameters, URL, media selection and track id may be missing
\* or wrong; "none" is a request of no recognized variant
PlainRequests ==
    {r \in [variant : {"RoomComposite", "Web", "TrackComposite", "Track", "none"},
            EgressId : {"", "EG"}, Token : {"", "tok"}, ApiKeys : BOOLEAN,
            WsUrl : {"", "ws"}, ConfWsUrl : {"", "ws"}, UrlScheme : {"https", "ftp"},
            TrackId : {"", "TR"}, DirectOutputOk : BOOLEAN,
            RoomName : {<<>>, <<"r">>},
            FileType : {OutputTypeUnknownFile, OutputTypeMP4},
            Filepath : {<<"f">>},
            Stream : {FALSE}, Segments : {FALSE},
            AudioEnabled : BOOLEAN, VideoEnabled : BOOLEAN,
            AudioCodec : {NoCodec}, VideoCodec : {NoCodec}] :
        /\ r.variant \notin {"RoomComposite", "Web"} => r.UrlScheme = "https"
        /\ r.variant = "Track" <=> r.FileType = OutputTypeUnknownFile
        /\ r.variant # "Track" => r.TrackId = "" /\ r.DirectOutputOk
        /\ r.variant \in {"Track", "none"} => r.AudioEnabled /\ r.VideoEnabled
        /\ r.variant = "none" =>
              r.Token = "tok" /\ ~r.ApiKeys /\ r.WsUrl = "ws" /\ r.ConfWsUrl = ""}

Requests == EncodedRequests \cup PlainRequests

NoConfig ==
    [RoomName |-> <<>>, TrackID |-> "", Token |-> "", WsUrl |-> "",
     AudioEnabled |-> FALSE, VideoEnabled |-> FALSE,
     AudioOutCodec |-> NoCodec, VideoOutCodec |-> NoCodec,
     Outputs |-> [e \in {} |-> NoOutput(OutputTypeUnknownFile)]]

confFrame ==
    <<mgrVars, procVars, srvVars, pipeVars, sinkVars, histVars, resp, dot, upl, failureMade, pm>>

\* the outputs updateEncodedOutputs and updateDirectOutput put in p.Outputs
updateOutputs(p, req) ==
    LET dom == (IF req.FileType # "none" THEN {EgressTypeFile} ELSE {})
                   \cup (IF req.Stream THEN {EgressTypeStream} ELSE {})
                   \cup (IF req.Segments THEN {EgressTypeSegments} ELSE {})
        files == IF req.FileType = "none" THEN {NoOutput(OutputTypeUnknownFile)}
                 ELSE getFileConfig(p, req.FileType, req.Filepath)
    IN  {[p EXCEPT !.Outputs =
             [e \in dom |->
                 CASE e = EgressTypeFile -> f
                   [] e = EgressTypeStream -> NoOutput(OutputTypeRTMP)
                   [] OTHER -> SegmentConfig]] : f \in files}

\* Update from "connection info" on, for the config p left by the request's case
updateConnectionInfo(p, req) ==
    LET required == req.variant # "Web"
        token == IF req.Token # "" THEN req.Token
                 ELSE IF req.ApiKeys THEN "built" ELSE ""
        wsUrl == IF req.WsUrl # "" THEN req.WsUrl ELSE req.ConfWsUrl
        p2 == IF required THEN [p EXCEPT !.Token = token, !.WsUrl = wsUrl]
              ELSE [p EXCEPT !.WsUrl = req.ConfWsUrl]
    IN  IF required /\ p.RoomName = <<>> THEN {[p |-> p, err |-> ErrInvalidInput]}
        ELSE IF required /\ token = "" THEN {[p |-> p, err |-> ErrInvalidInput]}
        ELSE IF required /\ wsUrl = ""
        THEN {[p |-> [p EXCEPT !.Token = token], err |-> ErrInvalidInput]}
        ELSE IF p2.TrackID = "" THEN validateAndUpdateOutputParams(p2)
        ELSE {[p |-> p2, err |-> NoError]}

\* PipelineConfig.Update: the configs and errors it may leave for a request
updateRequest(req) ==
    LET p0 == [NoConfig EXCEPT !.WsUrl = req.ConfWsUrl]
        fail(p) == {[p |-> p, err |-> ErrInvalidInput]}
        named == [p0 EXCEPT !.RoomName = req.RoomName]
        media == [p0 EXCEPT !.RoomName = IF req.variant = "Web" THEN <<>> ELSE req.RoomName,
                            !.AudioEnabled = req.AudioEnabled,
                            !.VideoEnabled = req.VideoEnabled]
        encoded == [media EXCEPT !.AudioOutCodec = req.AudioCodec,
                                 !.VideoOutCodec = req.VideoCodec]
    IN  IF req.EgressId = "" THEN fail(p0)
        ELSE IF req.variant \in {"RoomComposite", "Web"}
        THEN IF req.UrlScheme \notin {"http", "https"}
             THEN fail(IF req.variant = "Web" THEN p0 ELSE named)
             ELSE IF ~req.AudioEnabled /\ ~req.VideoEnabled THEN fail(media)
             ELSE UNION {updateConnectionInfo(p, req) : p \in updateOutputs(encoded, req)}
        ELSE IF req.variant = "TrackComposite"
        THEN IF ~req.AudioEnabled /\ ~req.VideoEnabled THEN fail(media)
             ELSE UNION {updateConnectionInfo(p, req) : p \in updateOutputs(encoded, req)}
        ELSE IF req.variant = "Track"
        THEN IF req.TrackId = "" THEN fail(named)
             ELSE IF ~req.DirectOutputOk
             THEN {[p |-> [named EXCEPT !.TrackID = req.TrackId], err |-> NoError]}
             ELSE UNION {updateConnectionInfo(p, req) :
                            p \in updateOutputs([named EXCEPT !.TrackID = req.TrackId], req)}
        ELSE fail(p0)

\* PipelineConfig.Update for the request held in conf
PipelineConfigUpdate ==
    /\ conf.kind = "request"
    /\ \E res \in updateRequest(conf.req) :
          conf' = [kind |-> "config", req |-> conf.req, p |-> res.p, err |-> res.err]
    /\ UNCHANGED confFrame

\* the segment case of UpdateInfoFromSDK: stringReplace on the five fields
replaceSegmentFields(o, replacements) ==
    {[o EXCEPT !.LocalDir = a, !.StorageDir = b, !.PlaylistFilename = c,
               !.SegmentPrefix = d, !.PlaylistName = e] :
        a \in stringReplace(o.LocalDir, replacements),
        b \in stringReplace(o.StorageDir, replacements),
        c \in stringReplace(o.PlaylistFilename, replacements),
        d \in stringReplace(o.SegmentPrefix, replacements),
        e \in stringReplace(o.PlaylistName, replacements)}

\* position of output e in an iteration order of p.Outputs
IndexIn(order, e) == CHOOSE i \in 1..Len(order) : order[i] = e

\* the configs UpdateInfoFromSDK may leave: the loop over p.Outputs, in any
\* order of the map, returns from the file case and goes on after the
\* segment case
updateInfoFromSDK(p, identifier, replacements) ==
    UNION {LET hasFile == EgressTypeFile \in DOMAIN p.Outputs
               hasSegments == EgressTypeSegments \in DOMAIN p.Outputs
               segmentsDone ==
                   /\ hasSegments
                   /\ hasFile => IndexIn(order, EgressTypeSegments)
                                    < IndexIn(order, EgressTypeFile)
               ps == IF segmentsDone
                     THEN {[p EXCEPT !.Outputs[EgressTypeSegments] = s] :
                              s \in replaceSegmentFields(p.Outputs[EgressTypeSegments],
                                                         replacements)}
                     ELSE {p}
           IN  IF hasFile
               THEN {[q EXCEPT !.Outputs[EgressTypeFile] = o] :
                        q \in ps,
                        o \in updateFilepath(p.Outputs[EgressTypeFile], identifier,
                                             replacements)}
               ELSE ps
           : order \in Orders(DOMAIN p.Outputs)}

\* PipelineConfig.UpdateInfoFromSDK once the SDK source has joined the room,
\* with the room name as identifier and the room's replacements
UpdateInfoFromSDK ==
    /\ conf.kind = "config"
    /\ conf.err = NoError
    /\ conf.req.variant = "TrackComposite"
    /\ LET info == getFilenameInfo(conf.p)
       IN  \E q \in updateInfoFromSDK(conf.p, info.identifier, info.replacements) :
              conf' = [conf EXCEPT !.kind = "joined", !.p = q]
    /\ UNCHANGED confFrame

ConfigInit ==
    /\ NoProcess
    /\ resp = NoResp
    /\ dot = NoDot
    /\ upl = NoUpl
    /\ failureMade = TRUE
    /\ pm = NoManager
    /\ \E r \in Requests :
          conf = [kind |-> "request", req |-> r, p |-> NoConfig, err |-> NoError]

ConfigNext ==
    \/ PipelineConfigUpdate
    \/ UpdateInfoFromSDK
    \/ Tick

\* the validation of a request into a PipelineConfig
ConfigSpec == ConfigInit /\ [][ConfigNext]_vars

\* ------------------------------------------------------------------ bus loop

\* Debug strings are sequences of atoms: free text, the marker
\* "GstPipeline:pipeline/GstBin:" that regExp looks for, "/", ":", ":\n" and
\* messages.  An atom that starts with a colon ends the element name.
debugBin == "GstPipeline:pipeline/GstBin:"
ColonAtoms == {":", ":\n", msgMuxer}

\* the debug strings an element may attach to a message: of an element in a
\* bin of the pipeline, of an element placed in the pipeline itself, empty
DebugStrings(element, name, message) ==
    LET tail == <<element, ":", name>>
                    \o (IF message = msgMuxer THEN <<>> ELSE <<":\n">>) \o <<message>>
    IN  {<<"gst.c(1): f (): /", debugBin, "bin", "/">> \o tail,
         <<"gst.c(1): f (): /", "GstPipeline:pipeline", "/">> \o tail,
         <<>>}

\* the least index from `from` on at which s holds one of atoms, 0 when none
FirstIndex(s, from, atoms) ==
    LET found == {i \in from..Len(s) : s[i] \in atoms}
    IN  IF found = {} THEN 0 ELSE CHOOSE i \in found : \A j \in found : i <= j

RECURSIVE Concat(_)
Concat(s) == IF s = <<>> THEN "" ELSE Head(s) \o Concat(Tail(s))

\* parseDebugInfo: regExp.FindStringSubmatch returns nil when the debug
\* string does not match, and indexing the nil match panics
parseDebugInfo(debug) ==
    LET i == FirstIndex(debug, 1, {debugBin})
        j == IF i = 0 THEN 0 ELSE FirstIndex(debug, i + 1, {"/"})
        k == IF j = 0 THEN 0 ELSE FirstIndex(debug, j + 1, {":"})
        c == FirstIndex(debug, k + 1, ColonAtoms)
        e == IF c = 0 THEN Len(debug) + 1 ELSE c
        from == IF e <= Len(debug) /\ debug[e] = ":\n" THEN e + 1 ELSE e
    IN  IF k = 0
        THEN [panic |-> TRUE, element |-> "", name |-> "", message |-> ""]
        ELSE [panic |-> FALSE,
              element |-> Concat(SubSeq(debug, j + 1, k - 1)),
              name |-> Concat(SubSeq(debug, k + 1, e - 1)),
              message |-> Concat(SubSeq(debug, from, Len(debug)))]

\* Warning and Error messages as the bus delivers them: gErr.Message() and
\* gErr.DebugString()
GErrors ==
    UNION {{[type |-> "Warning", text |-> w.text, debug |-> d] :
               d \in DebugStrings(elementOther, "sink", w.text)} : w \in WarningMsgs}
    \cup UNION {{[type |-> "Error", text |-> e.message, debug |-> d] :
                    d \in DebugStrings(e.element, e.name, e.message)} : e \in ErrorMsgs}

\* a panic in the bus loop ends the process
Panic ==
    /\ exitCode' = 1
    /\ ProcessGone

\* messageWatch for a Warning or Error message, parseDebugInfo included
MessageWatchGError(gErr) ==
    /\ BusReady
    /\ LET parsed == parseDebugInfo(gErr.debug)
       IN  IF parsed.panic THEN Panic
           ELSE IF gErr.type = "Warning"
           THEN MessageWatchWarning([type |-> "Warning", text |-> gErr.text])
           ELSE MessageWatchError([type |-> "Error", element |-> parsed.element,
                                   name |-> parsed.name, message |-> parsed.message])

\* Element messages on a pipeline with or without a segment sink
StructureMsgs ==
    ElementMsgs
    \cup [type : {"Element"},
          name : {msgFragmentOpened, msgFragmentClosed, msgFirstSampleMetadata},
          seg : {1}, decodeOk : BOOLEAN, sinkOk : {TRUE}]

\* messageWatch for an Element message, getSegmentSink included: the type
\* assertion on the missing entry of p.sinks panics
MessageWatchStructure(msg) ==
    /\ BusReady
    /\ IF msg.decodeOk /\ "segments" \notin others
       THEN Panic
       ELSE MessageWatchElement(msg)

\* errors already waiting on p.Failure when the bus loop posts its own
PendingCounts == {0, 1, FailureCap - 1, FailureCap}

\* a pipeline run on a config built by NewPipelineConfig, which makes
\* Failure with capacity 10, or by GetValidatedPipelineConfig, which leaves
\* it nil
WatchInit ==
    /\ resp = NoResp
    /\ dot = NoDot
    /\ upl = NoUpl
    /\ conf = NoConf
    /\ pm = NoManager
    /\ \E j \in Jobs, made \in BOOLEAN, n \in PendingCounts :
          /\ failureMade = made
          /\ RunningJob(j, IF made THEN [i \in 1..n |-> ErrSink] ELSE <<>>)

WatchNext ==
    \/ MessageWatchEOS
    \/ \E gErr \in GErrors : MessageWatchGError(gErr)
    \/ \E msg \in StateChangedMsgs : MessageWatchStateChanged(msg, now)
    \/ \E msg \in StructureMsgs : MessageWatchStructure(msg)
    \/ RunConsumeFailure
    \/ EosTimerElapse
    \/ EosTimerFire
    \/ RunReturn

\* the bus loop and Run's consumer of the failure channel
WatchSpec == WatchInit /\ [][WatchNext]_vars

\* --------------------------------------------------- RPCs during handler start

StartNext ==
    \/ \E j \in Jobs : launchHandler(j.version, j.source, j.urls, j.others)
    \/ NewPipelineConfig
    \/ NewHandlerServe
    \/ \E outcome \in {NoErr, ErrUser, ErrFatal} : NewHandler(outcome)
    \/ HandlerRunStart
    \/ \E req \in StreamRequests : HandlerUpdateStream(req)
    \/ HandlerStopEgress
    \/ GetPipelineDot
    \/ DotHelperSend
    \/ DotDeadline
    \/ GetPipelineDotReturn
    \/ \E profiled \in BOOLEAN : GetPProf(profiled)
    \/ MainExit

\* the control RPCs served from the start of the handler's servers on
StartSpec == Init /\ [][StartNext]_vars

\* ------------------------------------------- process manager, several processes

pmFrame ==
    <<mgrVars, procVars, srvVars, pipeVars, sinkVars, histVars, resp, dot, upl, conf,
      failureMade>>

\* ProcessManager.launchHandler for a request with egress id `id`: cmd.Start
\* (started), monitor.EgressStarted, grpc.Dial (dialed), then the entry in
\* activeHandlers and the launch of awaitCleanup
launchProcess(id, started, dialed) ==
    /\ \E h \in Handles :
          /\ pm.cmds[h].st = "none"
          /\ \A g \in Handles : g < h => pm.cmds[g].st # "none"
          /\ pm' = IF ~started THEN [pm EXCEPT !.ret = "start error"]
                   ELSE IF ~dialed
                   THEN [pm EXCEPT !.cmds[h] = [st |-> "running", id |-> id, exit |-> 0,
                                                awaited |-> FALSE],
                                   !.started[id] = @ + 1,
                                   !.ret = "dial error"]
                   ELSE [pm EXCEPT !.cmds[h] = [st |-> "running", id |-> id, exit |-> 0,
                                                awaited |-> TRUE],
                                   !.started[id] = @ + 1,
                                   !.activeHandlers[id] = h,
                                   !.ret = "nil"]
    /\ UNCHANGED pmFrame

\* the handler process h exits with the given code
cmdExit(h, code) ==
    /\ pm.cmds[h].st = "running"
    /\ pm' = [pm EXCEPT !.cmds[h].st = "exited", !.cmds[h].exit = code]
    /\ UNCHANGED pmFrame

\* ProcessManager.awaitCleanup(h) once h.cmd.Wait has returned
awaitCleanupOf(h) ==
    /\ pm.cmds[h].st = "exited"
    /\ pm.cmds[h].awaited
    /\ pm' = [pm EXCEPT !.cmds[h].st = "cleaned",
                        !.fatal = IF pm.cmds[h].exit # 0 THEN @ \cup {h} ELSE @,
                        !.ended[pm.cmds[h].id] = @ + 1,
                        !.activeHandlers[pm.cmds[h].id] = 0]
    /\ UNCHANGED pmFrame

\* ProcessManager.isIdle
isIdle == \A id \in EgressIds : pm.activeHandlers[id] = 0

ManagerNext ==
    \/ \E id \in EgressIds, started \in BOOLEAN, dialed \in BOOLEAN :
          launchProcess(id, started, dialed)
    \/ \E h \in Handles, code \in {0, 1} : cmdExit(h, code)
    \/ \E h \in Handles : awaitCleanupOf(h)

\* the manager and its handler processes; an awaitCleanup that was launched runs
ManagerSpec ==
    /\ Init
    /\ [][ManagerNext]_vars
    /\ \A h \in Handles : WF_vars(awaitCleanupOf(h))

\* ------------------------------------------------------------ specification

Next ==
    \/ Tick
    \/ \E j \in Jobs : launchHandler(j.version, j.source, j.urls, j.others)
    \/ awaitCleanup
    \/ NewPipelineConfig
    \/ NewHandlerServe
    \/ \E outcome \in {NoErr, ErrUser, ErrFatal} : NewHandler(outcome)
    \/ HandlerRunStart
    \/ HandlerRunKill
    \/ HandlerRunResult
    \/ StopEgress
    \/ Kill
    \/ MainExit
    \/ ProcessCrash
    \/ NewHandlerV0
    \/ \E outcome \in {NoErr, ErrUser, ErrFatal}, subscribed \in BOOLEAN :
          HandlerV0RunStart(outcome, subscribed)
    \/ HandlerV0RunKill
    \/ HandlerV0RunResult
    \/ MessageWatchEOS
    \/ \E msg \in WarningMsgs : MessageWatchWarning(msg)
    \/ \E msg \in ErrorMsgs : MessageWatchError(msg)
    \/ \E msg \in StateChangedMsgs, t \in 1..MaxTime :
          t >= Info.updatedAt /\ t <= now /\ MessageWatchStateChanged(msg, t)
    \/ \E msg \in ElementMsgs : MessageWatchElement(msg)
    \/ RunConsumeFailure
    \/ InputExhausted
    \/ EosTimerElapse
    \/ EosTimerFire
    \/ RunReturn

Spec == Init /\ [][Next]_vars

\* the timers run and the tasks of Pipeline.Run and of the handler's select
\* loop are scheduled; bus messages, RPCs and signals are the environment's
LiveSpec ==
    /\ Spec
    /\ WF_vars(EosTimerElapse)
    /\ WF_vars(EosTimerFire)
    /\ WF_vars(RunConsumeFailure)
    /\ WF_vars(RunReturn)

\* select chooses among its ready cases at random: a case that stays ready
\* is eventually taken
SelectSpec ==
    /\ LiveSpec
    /\ WF_vars(HandlerRunResult)
    /\ WF_vars(HandlerV0RunResult)


\* ================================================================== claims

UpdateIdx == DOMAIN updates
TerminalIdx == {i \in UpdateIdx : IsTerminal(updates[i].status)}
SentBy(names) == {i \in UpdateIdx : updates[i].by \in names}
PipelineSenders ==
    {"Pipeline.SendEOS", "Pipeline.removeSink", "Pipeline.updateStartTime"}

\* C1: once a job of the RPC handler is over (its process has exited and
\* awaitCleanup has run), exactly one terminal update (COMPLETE or FAILED) was
\* emitted in total by NewHandler, Handler.Run and awaitCleanup.
C1_ExactlyOneTerminalUpdate ==
    (version = 1 /\ cleaned) =>
        Cardinality(TerminalIdx \cap SentBy({"NewHandler", "Handler.Run", "awaitCleanup"})) = 1

\* C2: the statuses of successive updates never go back in the order
\* STARTING, ACTIVE, ENDING, COMPLETE | FAILED, no update follows a terminal
\* one, Handler.Run only sends terminal updates and every intermediate update
\* comes from the pipeline controller.
C2_StatusMonotonic ==
    /\ \A i, j \in UpdateIdx :
          i < j => /\ StatusRank(updates[i].status) <= StatusRank(updates[j].status)
                   /\ ~IsTerminal(updates[i].status)
    /\ \A i \in SentBy({"Handler.Run"}) : IsTerminal(updates[i].status)
    /\ \A i \in UpdateIdx \ TerminalIdx :
          updates[i].by \in PipelineSenders

\* C7: awaitCleanup emits the "internal error" FAILED update exactly when the
\* process exited non-zero and no terminal update had been emitted before.
C7_InternalErrorOnlyWithoutTerminal ==
    cleaned =>
        ((SentBy({"awaitCleanup"}) # {})
            <=> (exitCode # 0 /\ TerminalIdx \ SentBy({"awaitCleanup"}) = {}))


\* C6: when pipeline construction fails at handler start (NewHandler or
\* HandlerV0.buildPipeline), a fatal error sends no update at all and a user
\* error sends exactly one, FAILED, with the error message and
\* updated_at = ended_at set.
C6_ConstructionFailureUpdate ==
    (hpc = "returned" /\ pstate = "Building") =>
        LET sent == SentBy({"NewHandler", "buildPipeline"})
        IN  IF retCode # 0
            THEN sent = {}
            ELSE \E i \in UpdateIdx :
                    /\ sent = {i}
                    /\ updates[i].status = FAILED
                    /\ updates[i].error = ErrUser
                    /\ updates[i].endedAt # 0
                    /\ updates[i].updatedAt = updates[i].endedAt

\* C3: across the updates of a job updated_at never decreases (the ACTIVE
\* update with the SDK start time or wall-clock now and the FAILED updates
\* of NewHandler and awaitCleanup included), and ended_at is non-zero only on
\* a terminal update.
C3_TimestampsMonotonic ==
    /\ \A i, j \in UpdateIdx : i < j => updates[i].updatedAt <= updates[j].updatedAt
    /\ \A i \in UpdateIdx : updates[i].endedAt # 0 => IsTerminal(updates[i].status)

\* C3: an SDK job went ACTIVE and later sent a terminal update with a later time
C3_Witness ==
    /\ SourceType = "sdk"
    /\ \E i, j \in UpdateIdx :
          /\ i < j
          /\ updates[i].by = "Pipeline.updateStartTime"
          /\ updates[j].endedAt # 0
          /\ updates[j].updatedAt > updates[i].updatedAt

\* a step that calls SendEOS
SendEOSCall ==
    \/ HandlerRunKill
    \/ HandlerV0RunKill
    \/ StopEgress /\ pstate # "Building"
    \/ InputExhausted

\* C4: SendEOS is idempotent: on a pipeline already closed by a first call,
\* a further call (kill watcher, StopEgress, in any interleaving with Run)
\* changes nothing of the pipeline, its timer or the updates, and the EOS
\* safety timer is armed by the first call only.
C4_SendEOSIdempotent ==
    [][(SendEOSCall /\ closed)
          => /\ UNCHANGED <<pipeVars, sinkVars, srvVars, updates>>
             /\ timerArms' = timerArms
             /\ timerArms = 1]_vars

\* C4: SendEOS was called again after the first call and the run completed
C4_Witness ==
    /\ eosAgain
    /\ timerArms = 1
    /\ result # <<>>
    /\ Head(result).status = COMPLETE

HandlerRunUpdates == SentBy({"Handler.Run"})

\* C5: Handler.Run returns only on the pipeline's Run result: it then sends
\* the final update carrying exactly that result and shuts both RPC servers
\* down, returning nil; Handler.Run sends no other update; a kill
\* notification only delivers SendEOS and makes it neither return nor send.
C5_RunReturnsOnResultOnly ==
    [][/\ (version = 1 /\ hpc = "running" /\ hpc' = "returned")
            => /\ result # <<>>
               /\ updates' = Append(updates, Update(Head(result), "Handler.Run"))
               /\ rpcServer' = "shutdown"
               /\ grpcServer' = "stopped"
               /\ retCode' = 0
       /\ (HandlerRunUpdates' # HandlerRunUpdates)
            => (hpc = "running" /\ hpc' = "returned")
       /\ HandlerRunKill
            => /\ hpc' = "running"
               /\ closed'
               /\ UNCHANGED <<result, rpcServer, grpcServer>>]_vars

\* C5: a killed handler returned after the result, both servers shut down
C5_Witness ==
    /\ version = 1
    /\ hpc = "returned"
    /\ kill
    /\ closed
    /\ rpcServer = "shutdown"
    /\ grpcServer = "stopped"
    /\ updates[Len(updates)].by = "Handler.Run"
    /\ IsTerminal(updates[Len(updates)].status)


\* a fragment-opened or fragment-closed message is handled
FragmentMessage ==
    \E msg \in ElementMsgs :
        msg.name \in {msgFragmentOpened, msgFragmentClosed} /\ MessageWatchElement(msg)

Ended == pstate = "Terminated" \/ ~Alive

\* C8 as stated: once Ending, the pipeline reaches Terminated (or its process
\* is gone) whatever bus messages follow, fragment messages included.
C8_EndingAlwaysTerminates == (pstate = "Ending") ~> Ended

\* C8: once Ending, the pipeline reaches Terminated (EOS message or expiry of
\* the EOS safety timer) or its process is gone, provided fragment-opened and
\* fragment-closed messages, each of which re-arms the timer, stop arriving
\* from some point on.
C8_EndingTerminatesAfterFragments ==
    ([]<><<FragmentMessage>>_vars) \/ ((pstate = "Ending") ~> Ended)

\* C8: a segment job was force-stopped by the timer after fragments were seen
C8_Witness ==
    /\ pstate = "Terminated"
    /\ closed
    /\ segOpen # {}
    /\ eosTimer.set /\ ~eosTimer.active /\ eosTimer.elapsed

\* the Error message of RTMP sink element e
RtmpError(e) ==
    [type |-> "Error", element |-> elementGstRtmp2Sink, name |-> e, message |-> msgOther]

\* C9: when the failure of its sink element removes the last stream URL, the
\* pipeline keeps running (bus loop watching, nothing on the failure channel,
\* state and status untouched) if another output remains; when no output of
\* any kind is left the stream error is posted, Run takes it into Ending and
\* the job ends FAILED.
C9_PartialFailurePolicy ==
    [][/\ \A e \in Elems :
            (bindings[e] # NoUrl /\ urls = <<bindings[e]>> /\ MessageWatchError(RtmpError(e)))
                => /\ urls' = <<>>
                   /\ IF others # {}
                      THEN /\ watching'
                           /\ UNCHANGED <<Failure, pstate, Info, others>>
                      ELSE /\ ~watching'
                           /\ Failure' = Append(Failure, ErrGstPipelineError)
       /\ (Failure' # Failure /\ Len(Failure') < Len(Failure) /\ Alive')
            => /\ pstate' = "Ending"
               /\ Info'.error = Head(Failure)
       /\ (result' # result /\ result' # <<>> /\ Info.error # NoErr)
            => result'[Len(result')].status = FAILED]_vars

\* C9: the last stream URL was removed and the job goes on with its file output
C9_Witness ==
    /\ urls = <<>>
    /\ rtmpElems # {}
    /\ others # {}
    /\ BusReady
    /\ Failure = <<>>
    /\ Info.error = NoErr

\* C10: an Error message from an RTMP sink element bound to a URL removes
\* exactly that URL and its binding: the other URLs, their bindings and the
\* other outputs are unchanged, and while another sink remains the bus loop
\* keeps watching and nothing is posted on the failure channel.
C10_RemovesExactlyBoundUrl ==
    [][\A e \in Elems :
          (bindings[e] # NoUrl /\ MessageWatchError(RtmpError(e)))
              => /\ urls' = RemoveFromList(urls, bindings[e])
                 /\ Len(urls') = Len(urls) - 1
                 /\ bindings' = [bindings EXCEPT ![e] = NoUrl]
                 /\ UNCHANGED <<others, rtmpElems, segOpen, segQueue, pstate, Info>>
                 /\ (Len(urls') + Cardinality(others) > 0)
                        => (watching' /\ UNCHANGED Failure)]_vars

\* C10: of two stream URLs the second was removed and the first still streams
C10_Witness ==
    /\ urls = <<"u1">>
    /\ bindings["e1"] = "u1"
    /\ bindings["e2"] = NoUrl
    /\ "e2" \in rtmpElems
    /\ BusReady
    /\ Failure = <<>>


\* a job whose only output is a stream output
StreamOnly == rtmpElems # {} /\ others = {}

C12_AddThenRemoveRestores ==
    \A u \in AllUrls :
        (rtmpElems # {} /\ ~InList(urls, u) /\ Elems \ rtmpElems # {})
            => LET a == UpdateStreamOn(Sink, [op |-> "add", url |-> u])
                   b == UpdateStreamOn(a, [op |-> "remove", url |-> u])
               IN  /\ a.err = NoErr
                   /\ InList(a.urls, u)
                   /\ \E e \in Elems : a.bindings[e] = u
                   /\ b.err = NoErr
                   /\ b.urls = urls
                   /\ b.bindings = bindings

\* C12: a URL was added to a one-URL job and removed again by UpdateStream
C12_Witness ==
    /\ version = 1
    /\ SourceType = "sdk"
    /\ urls = <<"u1">>
    /\ bindings["e1"] = "u1"
    /\ Cardinality(rtmpElems) = 2
    /\ resp.op = "remove"
    /\ resp.err = NoErr

\* C13: UpdateStream on a job without stream output is rejected with an error
\* and changes no pipeline state; the handler answers with that error and no
\* EgressInfo, and with the pipeline's EgressInfo only when UpdateStream
\* succeeded.
C13_UpdateStreamRejected ==
    [][\A req \in StreamRequests :
          (HandlerUpdateStream(req) \/ HandlerV0RunRequest(req))
              => /\ rtmpElems = {}
                    => /\ resp'.err = ErrNonStreamingPipeline
                       /\ UNCHANGED <<pipeVars, sinkVars, updates>>
                 /\ resp'.err # NoErr => ~resp'.hasInfo
                 /\ resp'.err = NoErr => (resp'.hasInfo /\ resp'.info = Info')]_vars


\* C16: GetPipelineDot answers with the debug dot when the helper delivered it
\* and the deadline has not passed, and with DeadlineExceeded when the
\* deadline passed with no dot delivered; answering changes no pipeline
\* state; a helper task still running, also one whose request timed out,
\* can always deliver its result and finish.
C16_DotOrDeadline ==
    /\ [][(dot.phase = "waiting" /\ dot'.phase = "idle")
            => /\ dot'.reply \in {"dot", DeadlineExceeded}
               /\ (dot.res # <<>> /\ ~dot.elapsed) => dot'.reply = "dot"
               /\ dot.res = <<>> => (dot.elapsed /\ dot'.reply = DeadlineExceeded)
               /\ dot'.reply = "dot" => dot.res = <<"dot">>
               /\ UNCHANGED <<pipeVars, sinkVars, updates, resp>>]_vars
    /\ [](dot.helper = "running" => ENABLED DotHelperSend)

\* C16: the request timed out and the helper task delivered its late result
C16_Witness ==
    /\ dot.phase = "idle"
    /\ dot.reply = DeadlineExceeded
    /\ dot.helper = "done"
    /\ dot.res = <<"dot">>


\* C14: once an HLS job is completed (sink closed after EOS) the playlist, in
\* memory and in storage, lists exactly the segments of the
\* EnqueueSegmentUpload calls made on fragment-closed messages, in call
\* order, none lost and none twice.
C14_PlaylistEqualsEnqueued ==
    /\ upl.ended => (upl.playlist = segQueue /\ upl.stored = segQueue)
    /\ IsPrefix(upl.playlist, segQueue)
    /\ \A i, j \in 1..Len(upl.playlist) : i # j => upl.playlist[i] # upl.playlist[j]

\* C14: an HLS job completed with all its segments in the playlist
C14_Witness ==
    /\ upl.ended
    /\ Len(segQueue) = MaxUploads
    /\ upl.stored = segQueue

\* C15: the uploads of a segment sink are processed by a single consumer in
\* enqueue order: at most one playlist upload is in flight, the playlist in
\* storage only ever grows (a newer one is never overwritten by an older
\* one) and always lists a prefix of the enqueued segments.
C15_PlaylistsStoredInOrder ==
    /\ [][IsPrefix(upl.stored, upl'.stored)]_vars
    /\ [](/\ Cardinality(upl.inflight) <= 1
          /\ IsPrefix(upl.stored, segQueue))

\* C15: a second playlist version is being uploaded after the first reached storage
C15_Witness ==
    /\ Len(upl.stored) = 1
    /\ upl.stage = "playlist"
    /\ Len(upl.playlist) = 2
    /\ upl.playlist \in upl.inflight


\* the outputs of the configuration that a pinned codec is incompatible with
IncompatibleOutputs(codec) ==
    {e \in DOMAIN conf.p.Outputs : codec \notin CodecCompatibility(OutputTypeOf(conf.p, e))}

Validated == conf.kind = "config" /\ conf.err # ErrInvalidInput

\* C17: whenever the request pins an audio or video codec (of an enabled
\* medium) that some output is incompatible with, the validation returns
\* ErrIncompatible naming such an output's type and that pinned codec.
C17_IncompatibleNamesPinnedCodec ==
    Validated =>
        LET a == conf.req.AudioCodec
            v == conf.req.VideoCodec
            badA == IF conf.p.AudioEnabled /\ a # NoCodec THEN IncompatibleOutputs(a) ELSE {}
            badV == IF conf.p.VideoEnabled /\ v # NoCodec THEN IncompatibleOutputs(v) ELSE {}
        IN  (badA # {} \/ badV # {}) =>
                /\ conf.err.name = "ErrIncompatible"
                /\ \/ \E e \in badA : conf.err = ErrIncompatible(OutputTypeOf(conf.p, e), a)
                   \/ \E e \in badV : conf.err = ErrIncompatible(OutputTypeOf(conf.p, e), v)

\* the codecs compatible with every output, starting from the pinned codec
CompatibleWithAll(pinned, all) ==
    {c \in (IF pinned = NoCodec THEN all ELSE {pinned}) :
        \A e \in DOMAIN conf.p.Outputs : c \in CodecCompatibility(OutputTypeOf(conf.p, e))}

HasFile == conf.kind \in {"config", "joined"} /\ EgressTypeFile \in DOMAIN conf.p.Outputs

\* C19: filename resolution is idempotent: substituting the tokens again in
\* a resolved path gives the same path, and a second updateFilepath leaves
\* StorageFilepath unchanged.
C19_ResolutionIdempotent ==
    /\ [](HasFile =>
            LET sp == conf.p.Outputs[EgressTypeFile].StorageFilepath
            IN  \A r \in stringReplace(sp, getFilenameInfo(conf.p).replacements) : r = sp)
    /\ [][UpdateInfoFromSDK /\ HasFile =>
            conf'.p.Outputs[EgressTypeFile].StorageFilepath
                = conf.p.Outputs[EgressTypeFile].StorageFilepath]_vars

\* C20: when the path left by the substitution is empty or ends with "/",
\* updateFilepath makes the storage path <path><identifier>-<time><ext>, the
\* identifier being the room name when set and "web" otherwise and the
\* extension that of the output type; FileInfo.Filename is the storage path.
C20_GeneratedFilename ==
    (HasFile /\ conf.p.Outputs[EgressTypeFile].updated) =>
        LET o == conf.p.Outputs[EgressTypeFile]
            identifier == IF conf.p.RoomName # <<>> THEN conf.p.RoomName ELSE <<"web">>
            ext == IF o.OutputType = OutputTypeMP4 THEN ".mp4" ELSE ".ogg"
        IN  /\ o.Filename = o.StorageFilepath
            /\ (o.resolved = <<>> \/ o.resolved[Len(o.resolved)] = "/") =>
                  \E t \in 1..now :
                     o.StorageFilepath = o.resolved \o identifier \o <<"-", Format(t), ext>>

\* C20: a name generated under a directory for a room
C20_Witness ==
    /\ HasFile
    /\ conf.p.RoomName = <<"r">>
    /\ conf.p.Outputs[EgressTypeFile].updated
    /\ conf.p.Outputs[EgressTypeFile].resolved = <<"d", "/">>
    /\ conf.p.Outputs[EgressTypeFile].Filename = <<"d", "/", "r", "-", "T1", ".mp4">>


\* the file output after updateFilepath handled a path that was neither
\* empty nor a directory
NamedFile ==
    /\ HasFile
    /\ conf.p.Outputs[EgressTypeFile].updated
    /\ conf.p.Outputs[EgressTypeFile].resolved # <<>>
    /\ ~HasSuffix(conf.p.Outputs[EgressTypeFile].resolved, "/")

\* C21 as stated: a path ending with the extension of the output type is
\* kept, a different known extension is replaced, an unknown or missing one
\* gets the extension appended, and the result always ends with exactly one
\* occurrence of the correct extension.
C21_ExactlyOneExtension ==
    NamedFile =>
        LET o == conf.p.Outputs[EgressTypeFile]
            sp == o.StorageFilepath
            ext == FileExtensionForOutputType(o.OutputType)
        IN  /\ sp[Len(sp)] = ext
            /\ Len(sp) > 1 => sp[Len(sp) - 1] # ext

\* C21: a path ending with the extension of the output type is kept; one
\* ending with a different known extension has it replaced by the correct
\* one; any other path gets the correct extension appended; the result ends
\* with the correct extension.
C21_ExtensionFixed ==
    NamedFile =>
        LET o == conf.p.Outputs[EgressTypeFile]
            r == o.resolved
            sp == o.StorageFilepath
            ext == FileExtensionForOutputType(o.OutputType)
            last == r[Len(r)]
        IN  /\ sp[Len(sp)] = ext
            /\ last = ext => sp = r
            /\ (last # ext /\ last \in FileExtensions) =>
                   sp = SubSeq(r, 1, Len(r) - 1) \o <<ext>>
            /\ last \notin FileExtensions => sp = r \o <<ext>>

\* C21: a wrong known extension was replaced
C21_Witness ==
    /\ NamedFile
    /\ conf.p.Outputs[EgressTypeFile].resolved = <<"f", ".ogg">>
    /\ conf.p.Outputs[EgressTypeFile].StorageFilepath = <<"f", ".mp4">>


\* C22: whenever Update returns without error, for a request of any of the
\* four variants, audio or video is enabled in the resulting config.
C22_AudioOrVideoEnabled ==
    (conf.kind = "config" /\ conf.err = NoError) =>
        (conf.p.AudioEnabled \/ conf.p.VideoEnabled)

\* the cases in which a request is to be rejected as invalid input
InvalidRequest(req) ==
    \/ req.EgressId = ""
    \/ req.variant = "none"
    \/ req.variant # "Web" /\ req.RoomName = <<>>
    \/ req.variant # "Web" /\ req.Token = "" /\ ~req.ApiKeys
    \/ req.variant # "Web" /\ req.WsUrl = "" /\ req.ConfWsUrl = ""
    \/ req.variant \in {"RoomComposite", "Web"} /\ ~req.AudioEnabled /\ ~req.VideoEnabled
    \/ req.variant \in {"RoomComposite", "Web"} /\ req.UrlScheme \notin {"http", "https"}
    \/ req.variant = "Track" /\ req.TrackId = ""

\* C23: Update rejects with an invalid-input error, before any status is
\* sent, a request with an empty egress id (config untouched), without room
\* name, credentials or ws_url (non-Web variants), with audio_only and
\* video_only, with a URL that is not http(s), without track id (Track) or
\* of no recognized variant; a Web request needs no room name, token or
\* ws_url.
C23_InvalidInputRejected ==
    conf.kind = "config" =>
        /\ InvalidRequest(conf.req) => conf.err.name = "ErrInvalidInput"
        /\ conf.req.EgressId = "" => conf.p = [NoConfig EXCEPT !.WsUrl = conf.req.ConfWsUrl]
        /\ (conf.req.variant = "Web" /\ ~InvalidRequest(conf.req)) =>
               conf.err.name # "ErrInvalidInput"
        /\ updates = <<>>


\* a bus message is handled by messageWatch
BusMessage ==
    \/ MessageWatchEOS
    \/ \E msg \in WarningMsgs : MessageWatchWarning(msg)
    \/ \E msg \in ErrorMsgs : MessageWatchError(msg)
    \/ \E msg \in StateChangedMsgs, t \in 1..MaxTime : MessageWatchStateChanged(msg, t)
    \/ \E msg \in ElementMsgs : MessageWatchElement(msg)

\* C24: on an EOS bus message the loop stops the EOS safety timer when one
\* is set, stops the pipeline and stops watching, posting nothing on the
\* failure channel; once the loop has stopped watching no bus message is
\* handled any more.
C24_EOSStopsPipeline ==
    /\ [][MessageWatchEOS =>
            /\ ~eosTimer'.active
            /\ eosTimer'.set = eosTimer.set
            /\ pstate' = "Terminated"
            /\ ~watching'
            /\ Failure' = Failure]_vars
    /\ [][(running /\ ~watching) => ~BusMessage]_vars

\* C24: an EOS message arrived while the safety timer was armed and stopped it
C24_Witness ==
    /\ Alive
    /\ pstate = "Terminated"
    /\ ~watching
    /\ eosTimer.set
    /\ ~eosTimer.active
    /\ ~eosTimer.elapsed
    /\ Failure = <<>>
    /\ Info.error = NoErr


\* what messageWatch does with the error a handler returned
Posted(err) ==
    IF err # NoErr
    THEN Failure' = Append(Failure, err) /\ ~watching'
    ELSE Failure' = Failure /\ watching'

\* the Error messages that no case of handleMessageError demotes
Undemotable(msg) ==
    /\ msg.element # elementGstRtmp2Sink
    /\ ~(msg.element = elementGstAppSrc /\ msg.message = msgStreamingNotNegotiated)
    /\ ~(msg.element = elementSplitMuxSink /\ msg.message = msgMuxer /\ closed)

Fatal == Failure' = Append(Failure, ErrGstPipelineError) /\ ~watching'

\* the failure channel has room
CanPost == Len(Failure) < FailureCap

C27_MuxerErrorAfterEOS ==
    /\ [](\A msg \in ErrorMsgs :
            (BusReady /\ CanPost /\ msg.element = elementSplitMuxSink
                 /\ ~(msg.message = msgMuxer /\ closed)) =>
                ENABLED (MessageWatchError(msg) /\ Fatal))
    /\ [][\A msg \in ErrorMsgs :
            (msg.element = elementSplitMuxSink /\ MessageWatchError(msg)) =>
                IF msg.message = msgMuxer /\ closed THEN vars' = vars
                ELSE Fatal]_vars

\* C27: a segment job after EOS was issued, still watching its bus
C27_Witness ==
    /\ Alive
    /\ "segments" \in others
    /\ closed
    /\ BusReady
    /\ pstate = "Ending"
    /\ Failure = <<>>
    /\ Info.error = NoErr

\* C28: an app-source Error with the not-negotiated message signals
\* StreamStopped for that track and is not fatal; an app-source Error with
\* another message is fatal.
C28_NotNegotiatedStopsTrack ==
    /\ [](\A msg \in ErrorMsgs :
            (BusReady /\ CanPost /\ msg.element = elementGstAppSrc) =>
                ENABLED (/\ MessageWatchError(msg)
                         /\ IF msg.message = msgStreamingNotNegotiated
                            THEN msg.name \in srcStopped' /\ watching'
                            ELSE Fatal))
    /\ [][\A msg \in ErrorMsgs :
            (msg.element = elementGstAppSrc /\ MessageWatchError(msg)) =>
                IF msg.message = msgStreamingNotNegotiated
                THEN /\ srcStopped' = srcStopped \cup {msg.name}
                     /\ Failure' = Failure
                     /\ watching'
                ELSE Fatal /\ srcStopped' = srcStopped]_vars

\* C28: the audio track was told to stop and the loop is still watching
C28_Witness ==
    /\ BusReady
    /\ srcStopped = {"audio"}
    /\ Failure = <<>>
    /\ Info.error = NoErr

\* C29: the pipeline enters Playing only on a StateChanged-to-Playing
\* message of the pipeline root, once, and the start time is then the one
\* the SDK reports (SDK source) or the wall clock (web source); such a
\* message of an input element notifies the SDK source for that track; a
\* StateChanged to another state never changes the playing flag.
C29_PlayingOnce ==
    /\ [](\A msg \in StateChangedMsgs :
            (BusReady /\ msg.newState = "PLAYING" /\ msg.source \in AppSources) =>
                ENABLED (MessageWatchStateChanged(msg, now) /\ msg.source \in srcPlaying'))
    /\ [][\A msg \in StateChangedMsgs, t \in 1..MaxTime :
          MessageWatchStateChanged(msg, t) =>
              /\ playing => playing'
              /\ (playing' /\ ~playing) =>
                    /\ msg.source = pipelineSource
                    /\ msg.newState = "PLAYING"
                    /\ pstate = "Starting" =>
                          Info'.updatedAt = IF SourceType = "sdk" THEN t ELSE now
              /\ (msg.newState = "PLAYING" /\ msg.source = pipelineSource) => playing'
              /\ msg.newState # "PLAYING" => playing' = playing]_vars

\* C30: a fragment-opened message opens the segment in the sink and a
\* fragment-closed message enqueues it for upload; a decode or sink error
\* in either is fatal; both re-arm the EOS safety timer when one is set
\* and never start one.
C30_FragmentMessages ==
    [][\A msg \in ElementMsgs :
          (msg.name \in {msgFragmentOpened, msgFragmentClosed} /\ MessageWatchElement(msg)) =>
              /\ eosTimer' = IF eosTimer.set THEN NewTimer ELSE eosTimer
              /\ ~eosTimer.set => ~eosTimer'.set
              /\ IF msg.decodeOk /\ msg.sinkOk
                 THEN /\ Failure' = Failure
                      /\ watching'
                      /\ msg.name = msgFragmentOpened => msg.seg \in segOpen'
                      /\ msg.name = msgFragmentClosed =>
                            \E i \in 1..Len(segQueue') : segQueue'[i] = msg.seg
                 ELSE /\ Len(Failure') = Len(Failure) + 1
                      /\ ~watching'
                      /\ UNCHANGED <<segOpen, segQueue>>]_vars

\* C30: a segment was opened, closed and enqueued after EOS was issued,
\* with the timer armed anew
C30_Witness ==
    /\ BusReady
    /\ closed
    /\ eosTimer = NewTimer
    /\ segOpen # {}
    /\ Len(segQueue) = 1

\* the media kinds whose codec intersection over all outputs is empty
EmptyIntersection(pinned, all) == CompatibleWithAll(pinned, all) = {}

\* C31: when a medium is enabled with no pinned codec and no codec of that
\* medium is compatible with every output (the other medium not failing
\* before it), the validation returns the generic ErrNoCompatibleCodec;
\* ErrIncompatible is returned only for a medium whose codec was pinned and
\* names that codec, never an empty one.
C31_GenericErrorWhenUnpinned ==
    Validated =>
        LET a == conf.req.AudioCodec
            v == conf.req.VideoCodec
            audioEmpty == conf.p.AudioEnabled /\ EmptyIntersection(a, AllOutputAudioCodecs)
            videoEmpty == conf.p.VideoEnabled /\ EmptyIntersection(v, AllOutputVideoCodecs)
        IN  /\ (audioEmpty /\ a = NoCodec) => conf.err = ErrNoCompatibleCodec
            /\ (~audioEmpty /\ videoEmpty /\ v = NoCodec) => conf.err = ErrNoCompatibleCodec
            /\ conf.err.name = "ErrIncompatible" =>
                  /\ conf.err.codec # NoCodec
                  /\ \/ audioEmpty /\ conf.err.codec = a
                     \/ videoEmpty /\ conf.err.codec = v

RunUpdates == SentBy({"Handler.Run", "HandlerV0.Run"})

\* C32: after the kill fuse is broken the select loop of Handler.Run (and of
\* HandlerV0.Run) goes on calling SendEOS, the kill case staying ready, and
\* still terminates: once the result of the pipeline's Run is available the
\* loop eventually receives it and returns (or the process is gone); it
\* leaves the loop only by sending the final update with that result, which
\* it sends once.
C32_KilledRunTerminates ==
    /\ (hpc = "running" /\ kill /\ result # <<>>) ~> (hpc # "running")
    /\ [](hpc = "running" /\ kill => ENABLED (HandlerRunKill \/ HandlerV0RunKill))
    /\ [](Cardinality(RunUpdates) <= 1)
    /\ [][(hpc = "running" /\ hpc' = "returned") =>
             /\ result # <<>>
             /\ \E by \in {"Handler.Run", "HandlerV0.Run"} :
                   updates' = Append(updates, Update(Head(result), by))
             /\ RunUpdates = {}]_vars

\* C32: a killed handler called SendEOS again and again, then returned with
\* the final update
C32_Witness ==
    /\ hpc = "returned"
    /\ kill
    /\ eosAgain
    /\ closed
    /\ Cardinality(RunUpdates) = 1
    /\ updates[Len(updates)].by \in {"Handler.Run", "HandlerV0.Run"}

\* C33: Update returns an error whenever the requested output cannot be
\* configured, in particular for a Track request whose direct output (file
\* or websocket URL) is refused; it never returns nil having skipped the
\* connection-info checks: a config accepted for a variant that needs
\* connection info has a room name, a token and a ws url.
C33_OutputFailureRejected ==
    conf.kind = "config" =>
        /\ (conf.req.variant = "Track" /\ conf.req.EgressId # "" /\ ~conf.req.DirectOutputOk)
               => conf.err # NoError
        /\ (conf.err = NoError /\ conf.req.variant # "Web")
               => /\ conf.p.RoomName # <<>>
                  /\ conf.p.Token # ""
                  /\ conf.p.WsUrl # ""

\* the segment output with every templated field substituted
SegmentsSubstituted(replacements) ==
    conf.p.Outputs[EgressTypeSegments] \in replaceSegmentFields(SegmentConfig, replacements)

\* C34: UpdateInfoFromSDK applies the replacements to every output: for a
\* job with a file output and a segment output the file path is resolved and
\* all five segment fields (local dir, storage dir, playlist filename,
\* segment prefix, playlist name) are substituted, whatever the iteration
\* order of the outputs map.
C34_EveryOutputSubstituted ==
    (conf.kind = "joined" /\ EgressTypeSegments \in DOMAIN conf.p.Outputs) =>
        /\ SegmentsSubstituted(getFilenameInfo(conf.p).replacements)
        /\ HasFile => conf.p.Outputs[EgressTypeFile].updated

\* C35: posting a fatal error from the bus loop never blocks it for ever:
\* for a config built by either constructor and any number of errors
\* pending, whenever the loop handles a Warning or Error message whose
\* handler returns an error, either the send on Failure can complete, the
\* watch then returning false, or Run can take a pending error to make room.
C35_PostNeverBlocks ==
    [](BusReady =>
          /\ \A msg \in WarningMsgs :
                handleMessageWarning(msg) # NoErr =>
                    \/ ENABLED (MessageWatchWarning(msg) /\ ~watching')
                    \/ ENABLED RunConsumeFailure
          /\ \A msg \in ErrorMsgs :
                handleMessageError(msg).err # NoErr =>
                    \/ ENABLED (MessageWatchError(msg) /\ ~watching')
                    \/ ENABLED RunConsumeFailure)

\* a Warning, Error or Element message is handled by the bus loop
HandlerCall ==
    \/ \E gErr \in GErrors : MessageWatchGError(gErr)
    \/ \E msg \in StructureMsgs : MessageWatchStructure(msg)

\* C36: the bus handlers never crash the process of the job: for every
\* Warning or Error message, whatever its debug string, and every Element
\* message (fragment opened, fragment closed, FirstSampleMetadata), on a
\* pipeline with or without a segment sink, the handler returns nil or an
\* error and the process lives on.
C36_HandlersNeverPanic == [][HandlerCall => Alive']_vars

\* the processes launched successfully whose awaitCleanup has not finished
Launched(id) ==
    {h \in Handles : /\ pm.cmds[h].id = id
                     /\ pm.cmds[h].awaited
                     /\ pm.cmds[h].st \in {"running", "exited"}}

\* C37: activeHandlers holds an entry for an egress id exactly while a
\* process launched successfully for it has not finished its awaitCleanup,
\* and the entry is one of these processes (awaitCleanup of one process
\* removes only its own entry, also when the id was launched twice); isIdle
\* is never true while a handler process runs, and is true once every
\* process started has exited and been cleaned up.
C37_ActiveHandlersExact ==
    /\ \A id \in EgressIds :
          /\ pm.activeHandlers[id] # 0 <=> Launched(id) # {}
          /\ pm.activeHandlers[id] # 0 => pm.activeHandlers[id] \in Launched(id)
    /\ isIdle => \A h \in Handles : pm.cmds[h].st # "running"
    /\ (\A h \in Handles : pm.cmds[h].st \in {"none", "cleaned"}) => isIdle

\* C38: every handler process that launchHandler starts is awaited: once a
\* started process has exited, awaitCleanup eventually runs for it, calling
\* monitor.EgressEnded once for its request and reporting a non-zero exit
\* to onFatalError, also when launchHandler returned an error after
\* starting the process; EgressEnded is never called more often than
\* EgressStarted.
C38_EveryProcessAwaited ==
    /\ \A h \in Handles : (pm.cmds[h].st = "exited") ~> (pm.cmds[h].st = "cleaned")
    /\ [](\A id \in EgressIds : pm.ended[id] <= pm.started[id])
    /\ [](\A h \in Handles :
            pm.cmds[h].st = "cleaned" =>
                /\ pm.cmds[h].exit # 0 <=> h \in pm.fatal
                /\ pm.ended[pm.cmds[h].id] >= 1)

\* h.pipeline is nil: no pipeline has been constructed
NoPipeline == pstate = "Building"

\* the state of the manager, the process, the servers, the pipeline and the sinks
HandlerState == <<mgrVars, procVars, srvVars, pipeVars, sinkVars, histVars>>

\* C39: a control RPC (UpdateStream, StopEgress, GetPipelineDot, GetPProf)
\* served while the handler has no constructed pipeline returns
\* ErrEgressNotFound and changes no state, and it is answered so from the
\* moment NewHandler has started the RPC servers, before and after a failed
\* construction included.
C39_NoPipelineNotFound ==
    /\ [][/\ \A req \in StreamRequests :
               (NoPipeline /\ HandlerUpdateStream(req)) =>
                   /\ resp' = [NoResp EXCEPT !.op = req.op, !.err = ErrEgressNotFound]
                   /\ UNCHANGED HandlerState
          /\ (NoPipeline /\ HandlerStopEgress) =>
                   /\ resp' = [NoResp EXCEPT !.op = "stop", !.err = ErrEgressNotFound]
                   /\ UNCHANGED HandlerState
          /\ (NoPipeline /\ GetPipelineDot) =>
                   /\ dot' = [NoDot EXCEPT !.reply = ErrEgressNotFound]
                   /\ UNCHANGED HandlerState
          /\ \A profiled \in BOOLEAN :
               (NoPipeline /\ GetPProf(profiled)) =>
                   /\ resp' = [NoResp EXCEPT !.op = "pprof", !.err = ErrEgressNotFound]
                   /\ UNCHANGED HandlerState]_vars
    /\ []((NoPipeline /\ version = 1 /\ Alive /\ rpcServer = "serving") =>
             /\ ENABLED (HandlerStopEgress /\ resp'.err = ErrEgressNotFound
                            /\ UNCHANGED HandlerState)
             /\ \A req \in StreamRequests : CanUpdateStream(req) =>
                   ENABLED (HandlerUpdateStream(req) /\ resp'.err = ErrEgressNotFound
                               /\ UNCHANGED HandlerState))
    /\ []((~NoPipeline /\ version = 1 /\ Alive /\ rpcServer = "serving") =>
             ENABLED (HandlerStopEgress /\ resp'.err = NoErr))

\* C39: StopEgress was answered ErrEgressNotFound between the start of the
\* RPC servers and the construction of the pipeline
C39_Witness ==
    /\ hpc = "constructing"
    /\ rpcServer = "serving"
    /\ NoPipeline
    /\ resp = [NoResp EXCEPT !.op = "stop", !.err = ErrEgressNotFound]
    /\ ~closed

\* the updates sent by HandlerV0.Run itself: the FAILED update of
\* buildPipeline and the update carrying the result of the pipeline's Run
V0TerminalUpdates == SentBy({"buildPipeline", "HandlerV0.Run"})

\* C40: when HandlerV0.Run has returned, exactly one terminal update has been
\* sent for the job: the FAILED update of a failed buildPipeline, or the
\* update with the result of the pipeline's Run.
C40_OneTerminalUpdate ==
    (version = 0 /\ hpc = "returned") => Cardinality(V0TerminalUpdates) = 1

====
